---- MODULE Spec2Model ----
(***************************************************************************)
(* A model of kilo-rust: the line buffer with its render form and cached   *)
(* highlight (editor.rs), the lexical highlighter (syntax.rs), the key     *)
(* decoder (read_key.rs) and the cursor / viewport / search logic          *)
(* (editor.rs).                                                            *)
(*                                                                         *)
(* Text is a sequence of Unicode scalar values (code points, all below     *)
(* 256 in the inputs used here).  A Rust String is UTF-8: String::len,     *)
(* String::insert, String::remove and str slicing work on BYTE offsets,    *)
(* str::chars on scalar values.  Both measures are modelled (ByteLen, Len).*)
(* Option<T> is a sequence of zero or one T.  Rows, lines and columns are  *)
(* 0-based as in the code; TLA+ sequences are 1-based, so line y is        *)
(* rows[y + 1].                                                            *)
(***************************************************************************)
EXTENDS Integers, Sequences, FiniteSets, TLC

VARIABLES
  \* Editor (editor.rs:147-162)
  rows, cursor, offset, screen, status_msg,
  \* Editor::syntax (editor.rs:161): Some(ruleset) or None
  syntax,
  \* position of the program: "new", "opened" (main.rs:52 done), "idle" (main
  \* loop), "search" (the loop of Editor::find), "quit", "panicked"
  mode,
  \* locals of Editor::find (editor.rs:646-650)
  query, direction, saved_cursor, saved_offset,
  \* the file on disk, the number of keys handled so far
  disk, steps,
  \* history: the last operation, the state it started from, the file as it
  \* was opened and whether a key has edited the buffer since
  op, pre, hist,
  \* key decoder (read_key.rs): position inside read_escape, the CSI buffer,
  \* what the polls of the current call gave from its first byte on, the value
  \* of the last return
  dk_pc, dk_buf, dk_seq, dk_ret,
  \* highlighter harness: carry-in, line text, result, number of the line
  hl_state, hl_text, hl_res, hl_line,
  \* Row::update harness: the text given and the row it produced
  rd_text, rd_row,
  \* raw mode (editor.rs:211-258, 750-756): the attributes of the terminal,
  \* Editor::orig_termios, the attributes in force before the first
  \* successful enable_raw_mode, the position of the program ("alive",
  \* "unwinding" after a panic, "dropped", or "drop_panicked" / "aborted"
  \* when Drop itself panicked), the way the program ended, whether
  \* the warning of Drop was printed, the number of calls of enable_raw_mode
  tm_tty, tm_orig, tm_first, tm_pc, tm_exit, tm_warned, tm_calls

edVars == <<rows, cursor, offset, screen, status_msg, syntax, mode, query, direction,
            saved_cursor, saved_offset, disk, steps, op, pre, hist>>
dkVars == <<dk_pc, dk_buf, dk_seq, dk_ret>>
hlVars == <<hl_state, hl_text, hl_res, hl_line>>
rdVars == <<rd_text, rd_row>>
tmVars == <<tm_tty, tm_orig, tm_first, tm_pc, tm_exit, tm_warned, tm_calls>>
vars == <<edVars, dkVars, hlVars, rdVars, tmVars>>

----------------------------------------------------------------------------
\* Characters (code points) the source names.

TAB == 9
LF == 10
CR == 13
SPACE == 32
DQUOTE == 34
SQUOTE == 39
STAR == 42
DOT == 46
SLASH == 47
BACKSLASH == 92
UNDERSCORE == 95

\* Bounds of the model.
MaxEnable == 3
MaxRenderLen == 5
MaxHlLen == 4
MaxCsi == 3
MaxSteps == 3

Min(a, b) == IF a < b THEN a ELSE b
Max(a, b) == IF a > b THEN a ELSE b

\* All sequences over S of length at most n.
SeqsUpTo(S, n) == UNION {[1..k -> S] : k \in 0..n}

\* Option<T>
None == <<>>
Some(v) == <<v>>

----------------------------------------------------------------------------
\* UTF-8 and the char classes of the Rust standard library, for code points
\* below 256.

\* Number of bytes of a scalar value in a Rust String.
Utf8Len(c) == IF c < 128 THEN 1 ELSE IF c < 2048 THEN 2 ELSE IF c < 65536 THEN 3 ELSE 4

\* String::len: the length in bytes.
RECURSIVE ByteLen(_)
ByteLen(s) == IF s = <<>> THEN 0 ELSE Utf8Len(Head(s)) + ByteLen(Tail(s))

\* str::is_char_boundary(b)
IsCharBoundary(s, b) == \E k \in 0..Len(s) : ByteLen(SubSeq(s, 1, k)) = b

\* The number of characters that lie before byte offset b (a char boundary).
CharsBefore(s, b) == CHOOSE k \in 0..Len(s) : ByteLen(SubSeq(s, 1, k)) = b

\* char::is_whitespace
is_whitespace(c) == c \in (9..13) \cup {32, 133, 160}
\* char::is_numeric
is_numeric(c) == c \in (48..57) \cup {178, 179, 185} \cup (188..190)
\* char::is_alphabetic
is_alphabetic(c) ==
  c \in (65..90) \cup (97..122) \cup {170, 181, 186} \cup (192..214)
        \cup (216..246) \cup (248..255)
\* char::is_alphanumeric
is_alphanumeric(c) == is_alphabetic(c) \/ is_numeric(c)

----------------------------------------------------------------------------
\* Row::update (editor.rs:126-143): the render form.

\* The inner while loop: pad with spaces until the BYTE length of the render
\* form is a multiple of 8.
RECURSIVE PadTab(_)
PadTab(r) == IF ByteLen(r) % 8 # 0 THEN PadTab(Append(r, SPACE)) ELSE r

RECURSIVE RenderFrom(_, _)
RenderFrom(text, acc) ==
  IF text = <<>> THEN acc
  ELSE IF Head(text) = TAB
       THEN RenderFrom(Tail(text), PadTab(Append(acc, SPACE)))
       ELSE RenderFrom(Tail(text), Append(acc, Head(text)))

Render(text) == RenderFrom(text, <<>>)

\* Row::new(), then Row::update(text): highlight is None afterwards.
RowNew == [text |-> <<>>, render |-> <<>>, highlight |-> None]
RowUpdate(row, text) == [text |-> text, render |-> Render(text), highlight |-> None]

----------------------------------------------------------------------------
\* Syntax::highlight (syntax.rs).

primary_keywords ==
  {
    <<97,115>>, <<98,114,101,97,107>>, <<99,111,110,115,116>>,
    <<99,111,110,116,105,110,117,101>>, <<99,114,97,116,101>>,
    <<101,108,115,101>>, <<101,110,117,109>>, <<101,120,116,101,114,110>>,
    <<102,97,108,115,101>>, <<102,110>>, <<102,111,114>>, <<105,102>>,
    <<105,109,112,108>>, <<105,110>>, <<108,101,116>>, <<108,111,111,112>>,
    <<109,97,116,99,104>>, <<109,111,100>>, <<109,111,118,101>>,
    <<109,117,116>>, <<112,117,98>>, <<114,101,102>>,
    <<114,101,116,117,114,110>>, <<83,101,108,102>>, <<115,101,108,102>>,
    <<115,116,97,116,105,99>>, <<115,116,114,117,99,116>>,
    <<116,114,97,105,116>>, <<116,114,117,101>>, <<116,121,112,101>>,
    <<117,110,115,97,102,101>>, <<117,115,101>>, <<119,104,101,114,101>>,
    <<119,104,105,108,101>>
  }
secondary_keywords ==
  {
    <<102,108,111,97,116>>, <<115,116,114>>, <<99,104,97,114>>,
    <<98,111,111,108>>, <<102,51,50>>, <<102,54,52>>, <<117,56>>,
    <<117,49,54>>, <<117,51,50>>, <<117,54,52>>, <<117,115,105,122,101>>,
    <<105,56>>, <<105,49,54>>, <<105,51,50>>, <<105,54,52>>,
    <<105,115,105,122,101>>
  }

Drop(s, n) == SubSeq(s, n + 1, Len(s))
Take(s, n) == SubSeq(s, 1, Min(n, Len(s)))
Repeat(n, v) == [i \in 1..n |-> v]

\* multiline_comment_count (syntax.rs:177-203) on the iterator s, the
\* characters not yet taken: <<count, continues, what the iterator has left>>.
\* The count and the iterator advance separately, as in the code.
RECURSIVE MlcLoop(_, _)
MlcLoop(s, count) ==
  IF s = <<>> THEN <<count, TRUE, <<>>>>
  ELSE IF Head(s) = STAR
       THEN IF Len(s) = 1 THEN <<count + 1, TRUE, <<>>>>
            ELSE IF s[2] = SLASH THEN <<count + 2, FALSE, Drop(s, 2)>>
            ELSE MlcLoop(Drop(s, 2), count + 2)
       ELSE MlcLoop(Tail(s), count + 1)

multiline_comment_count(s) == MlcLoop(s, 0)

\* read_pred (syntax.rs:229-245) with the predicate of syntax.rs:92: the longest
\* prefix of alphanumeric-or-underscore characters.
RECURSIVE read_pred(_)
read_pred(s) ==
  IF s # <<>> /\ (is_alphanumeric(Head(s)) \/ Head(s) = UNDERSCORE)
  THEN <<Head(s)>> \o read_pred(Tail(s))
  ELSE <<>>

\* A variant of the string loop that counts an escaped pair as one character.
RECURSIVE StringLoop_EscapeOnce(_, _, _)
StringLoop_EscapeOnce(s, quote_char, count) ==
  IF s = <<>> THEN <<count, <<>>>>
  ELSE IF Head(s) = BACKSLASH
       THEN IF Len(s) >= 2 THEN StringLoop_EscapeOnce(Drop(s, 2), quote_char, count + 1)
            ELSE <<count + 1, <<>>>>
       ELSE IF Head(s) = quote_char THEN <<count + 1, Tail(s)>>
       ELSE StringLoop_EscapeOnce(Tail(s), quote_char, count + 1)

\* A variant of the string loop in which either quote character ends the
\* string.
RECURSIVE StringLoop_AnyQuote(_, _, _)
StringLoop_AnyQuote(s, quote_char, count) ==
  IF s = <<>> THEN <<count, <<>>>>
  ELSE IF Head(s) = BACKSLASH
       THEN IF Len(s) >= 2 THEN StringLoop_AnyQuote(Drop(s, 2), quote_char, count + 2)
            ELSE <<count + 1, <<>>>>
       ELSE IF Head(s) \in {SQUOTE, DQUOTE} THEN <<count + 1, Tail(s)>>
       ELSE StringLoop_AnyQuote(Tail(s), quote_char, count + 1)

\* The string loop (syntax.rs:105-129): s is the iterator after the opening
\* quote, count the value of the local; the result is <<count, what the
\* iterator has left>>.  The count and the iterator advance separately.
RECURSIVE StringLoop(_, _, _)
StringLoop(s, quote_char, count) ==
  IF s = <<>> THEN <<count, <<>>>>
  ELSE IF Head(s) = BACKSLASH
       THEN IF Len(s) >= 2 THEN StringLoop(Drop(s, 2), quote_char, count + 2)
            ELSE <<count + 1, <<>>>>
       ELSE IF Head(s) = quote_char THEN <<count + 1, Tail(s)>>
       ELSE StringLoop(Tail(s), quote_char, count + 1)

\* The main loop (syntax.rs:74-154): s the characters left, result the tags
\* pushed so far, ending_state the current value of the local.
RECURSIVE HighlightLoop(_, _, _)
HighlightLoop(s, result, ending_state) ==
  IF s = <<>> THEN [highlight |-> result, ending_state |-> ending_state]
  ELSE LET ch == Head(s) IN
    IF is_whitespace(ch)
      THEN HighlightLoop(Tail(s), Append(result, "Normal"), ending_state)
    ELSE IF is_numeric(ch)
      THEN HighlightLoop(Tail(s), Append(result, "Number"), ending_state)
    ELSE IF ch = DOT /\ Len(s) >= 2 /\ is_numeric(s[2])
      THEN HighlightLoop(Tail(s), Append(result, "Number"), ending_state)
    ELSE IF is_alphabetic(ch)
      THEN LET token == read_pred(s)
               classification ==
                 IF token \in primary_keywords THEN "PrimaryKeyword"
                 ELSE IF token \in secondary_keywords THEN "SecondaryKeyword"
                 ELSE "Normal"
           IN HighlightLoop(Drop(s, Len(token)),
                            result \o Repeat(Len(token), classification),
                            ending_state)
    ELSE IF ch = SQUOTE \/ ch = DQUOTE
      THEN LET r == StringLoop(Tail(s), ch, 1)
           IN HighlightLoop(r[2], result \o Repeat(r[1], "String"),
                            ending_state)
    ELSE IF ch = SLASH /\ Len(s) >= 2 /\ s[2] = SLASH
      THEN HighlightLoop(<<>>, result \o Repeat(Len(s), "Comment"), ending_state)
    ELSE IF ch = SLASH /\ Len(s) >= 2 /\ s[2] = STAR
      THEN LET r == multiline_comment_count(Drop(s, 2))
               count == 2 + r[1]
           IN HighlightLoop(r[3],
                            result \o Repeat(count, "MultiLineComment"),
                            IF r[2] THEN "MultiLineComment" ELSE ending_state)
    ELSE HighlightLoop(Tail(s), Append(result, "Normal"), ending_state)

\* Syntax::highlight (syntax.rs:50-161).  The result carries panic = TRUE when
\* initial_state is neither Normal nor MultiLineComment (syntax.rs:71).
Highlight(initial_state, s) ==
  IF initial_state = "MultiLineComment"
  THEN LET r == multiline_comment_count(s)
           l == HighlightLoop(r[3], Repeat(r[1], "MultiLineComment"),
                              IF r[2] THEN "MultiLineComment" ELSE "Normal")
       IN [highlight |-> l.highlight, initial_state |-> initial_state,
           ending_state |-> l.ending_state, panic |-> FALSE]
  ELSE IF initial_state # "Normal"
  THEN [highlight |-> <<>>, initial_state |-> initial_state,
        ending_state |-> "Normal", panic |-> TRUE]
  ELSE LET l == HighlightLoop(s, <<>>, "Normal")
       IN [highlight |-> l.highlight, initial_state |-> initial_state,
           ending_state |-> l.ending_state, panic |-> FALSE]

----------------------------------------------------------------------------
\* The key decoder (read_key.rs).

\* key_codes (read_key.rs:24-35) and the bytes read_escape tests.
CTRL_C == 3
CTRL_F == 6
CTRL_H == 8
CTRL_L == 12
ENTER == 13
CTRL_Q == 17
CTRL_S == 19
ESC == 27
BACKSPACE == 127
LBRACKET == 91
LETTER_O == 79
FINAL_LO == 64
FINAL_HI == 126

\* Key (read_key.rs:38-50)
Key(k) == [k |-> k, ch |-> 0]
KeyChar(b) == [k |-> "Char", ch |-> b]

\* Escape (read_key.rs:53-59)
EscChar(b) == [kind |-> "Char", ch |-> b, seq |-> <<>>]
EscEsc == [kind |-> "Esc", ch |-> 0, seq |-> <<>>]
EscCSI(buf) == [kind |-> "CSI", ch |-> 0, seq |-> buf]
EscSS3(b) == [kind |-> "SS3", ch |-> b, seq |-> <<>>]
EscInvalid == [kind |-> "InvalidEscape", ch |-> 0, seq |-> <<>>]

\* A variant of interpret that also reads the arrow keys in SS3 form
\* (ESC O A .. ESC O D).
Interpret_Ss3Arrows(e) ==
  CASE e.kind = "Char" -> Some(KeyChar(e.ch))
    [] e.kind = "Esc" -> Some(Key("Esc"))
    [] e.kind = "CSI" ->
         CASE e.seq = <<51, 126>> -> Some(Key("Del"))
           [] e.seq = <<53, 126>> -> Some(Key("PageUp"))
           [] e.seq = <<54, 126>> -> Some(Key("PageDown"))
           [] e.seq = <<65>> -> Some(Key("ArrowUp"))
           [] e.seq = <<66>> -> Some(Key("ArrowDown"))
           [] e.seq = <<67>> -> Some(Key("ArrowRight"))
           [] e.seq = <<68>> -> Some(Key("ArrowLeft"))
           [] e.seq = <<72>> -> Some(Key("Home"))
           [] e.seq = <<70>> -> Some(Key("End"))
           [] OTHER -> None
    [] e.kind = "SS3" ->
         CASE e.ch = 72 -> Some(Key("Home"))
           [] e.ch = 70 -> Some(Key("End"))
           [] e.ch = 65 -> Some(Key("ArrowUp"))
           [] e.ch = 66 -> Some(Key("ArrowDown"))
           [] e.ch = 67 -> Some(Key("ArrowRight"))
           [] e.ch = 68 -> Some(Key("ArrowLeft"))
           [] OTHER -> None
    [] OTHER -> None

\* Escape::interpret (read_key.rs:61-86): Option<Key>
Interpret(e) ==
  CASE e.kind = "Char" -> Some(KeyChar(e.ch))
    [] e.kind = "Esc" -> Some(Key("Esc"))
    [] e.kind = "CSI" ->
         CASE e.seq = <<51, 126>> -> Some(Key("Del"))
           [] e.seq = <<53, 126>> -> Some(Key("PageUp"))
           [] e.seq = <<54, 126>> -> Some(Key("PageDown"))
           [] e.seq = <<65>> -> Some(Key("ArrowUp"))
           [] e.seq = <<66>> -> Some(Key("ArrowDown"))
           [] e.seq = <<67>> -> Some(Key("ArrowRight"))
           [] e.seq = <<68>> -> Some(Key("ArrowLeft"))
           [] e.seq = <<72>> -> Some(Key("Home"))
           [] e.seq = <<70>> -> Some(Key("End"))
           [] OTHER -> None
    [] e.kind = "SS3" ->
         CASE e.ch = 72 -> Some(Key("Home"))
           [] e.ch = 70 -> Some(Key("End"))
           [] OTHER -> None
    [] OTHER -> None

\* What one poll of the stream (maybe_read_byte, read_key.rs:5-12) can give:
\* a byte, no data within the timeout (NoData), or an I/O error (IoError).
NoData == -1
IoError == -2
DkBytes == {27, 91, 79, 49, 51, 53, 54, 59, 64, 65, 66, 67, 68, 70, 72, 97, 126, 127}
DkOutcomes == DkBytes \cup {NoData, IoError}

\* io::Result<Escape>
RetOk(e) == [kind |-> "Ok", esc |-> e]
RetErr == [kind |-> "Err", esc |-> EscInvalid]

\* A return of read_escape.
DkReturn(r, seq) ==
  /\ dk_pc' = "idle"
  /\ dk_ret' = Some(r)
  /\ dk_seq' = seq
  /\ dk_buf' = <<>>

\* A caller enters read_escape (read_key.rs:114).
DkCall ==
  /\ dk_pc = "idle"
  /\ dk_pc' = "read_byte"
  /\ dk_ret' = None
  /\ dk_seq' = <<>>
  /\ dk_buf' = <<>>
  /\ UNCHANGED <<edVars, hlVars, rdVars, tmVars>>

\* read_byte (read_key.rs:15-21) inside read_escape (read_key.rs:115,124):
\* polls until a byte shows up.
DkReadByte(o) ==
  /\ dk_pc = "read_byte"
  /\ IF o = NoData THEN UNCHANGED dkVars
     ELSE IF o = IoError THEN DkReturn(RetErr, Append(dk_seq, o))
     ELSE IF o = ESC
          THEN /\ dk_pc' = "escape"
               /\ dk_seq' = <<o>>
               /\ UNCHANGED <<dk_buf, dk_ret>>
          ELSE DkReturn(RetOk(EscChar(o)), <<o>>)
  /\ UNCHANGED <<edVars, hlVars, rdVars, tmVars>>

\* The poll after ESC (read_key.rs:117-122).
DkEscape(o) ==
  /\ dk_pc = "escape"
  /\ IF o = IoError THEN DkReturn(RetErr, Append(dk_seq, o))
     ELSE IF o = NoData THEN DkReturn(RetOk(EscEsc), Append(dk_seq, o))
     ELSE IF o = LBRACKET \/ o = LETTER_O
          THEN /\ dk_pc' = IF o = LBRACKET THEN "csi" ELSE "ss3"
               /\ dk_seq' = Append(dk_seq, o)
               /\ UNCHANGED <<dk_buf, dk_ret>>
          ELSE DkReturn(RetOk(EscInvalid), Append(dk_seq, o))
  /\ UNCHANGED <<edVars, hlVars, rdVars, tmVars>>

\* A variant of the loop of read_csi that leaves it before pushing the final
\* byte.
DkCsi_BreakBeforePush(o) ==
  /\ dk_pc = "csi"
  /\ (o \in DkBytes /\ ~(o \in FINAL_LO..FINAL_HI)) => Len(dk_buf) + 1 < MaxCsi
  /\ IF o = IoError THEN DkReturn(RetErr, Append(dk_seq, o))
     ELSE IF o = NoData THEN DkReturn(RetOk(EscEsc), Append(dk_seq, o))
     ELSE IF o \in FINAL_LO..FINAL_HI
          THEN DkReturn(RetOk(EscCSI(dk_buf)), Append(dk_seq, o))
          ELSE /\ dk_buf' = Append(dk_buf, o)
               /\ dk_seq' = Append(dk_seq, o)
               /\ UNCHANGED <<dk_pc, dk_ret>>
  /\ UNCHANGED <<edVars, hlVars, rdVars, tmVars>>

\* A variant of the loop of read_csi that polls again after a poll that gave
\* no data (as read_byte does), a few times over.
DkCsi_WaitOnTimeout(o) ==
  /\ dk_pc = "csi"
  /\ (o \in DkBytes /\ ~(o \in FINAL_LO..FINAL_HI)) => Len(dk_buf) + 1 < MaxCsi
  /\ IF o = IoError THEN DkReturn(RetErr, Append(dk_seq, o))
     ELSE IF o = NoData
          THEN IF Len(dk_seq) < MaxCsi + 3
               THEN /\ dk_seq' = Append(dk_seq, o)
                    /\ UNCHANGED <<dk_pc, dk_buf, dk_ret>>
               ELSE DkReturn(RetOk(EscEsc), Append(dk_seq, o))
     ELSE IF o \in FINAL_LO..FINAL_HI
          THEN DkReturn(RetOk(EscCSI(Append(dk_buf, o))), Append(dk_seq, o))
          ELSE /\ dk_buf' = Append(dk_buf, o)
               /\ dk_seq' = Append(dk_seq, o)
               /\ UNCHANGED <<dk_pc, dk_ret>>
  /\ UNCHANGED <<edVars, hlVars, rdVars, tmVars>>

\* One iteration of the loop of read_csi (read_key.rs:88-105).  The terminal
\* sends at most MaxCsi bytes after ESC '['.
DkCsi(o) ==
  /\ dk_pc = "csi"
  /\ (o \in DkBytes /\ ~(o \in FINAL_LO..FINAL_HI)) => Len(dk_buf) + 1 < MaxCsi
  /\ IF o = IoError THEN DkReturn(RetErr, Append(dk_seq, o))
     ELSE IF o = NoData THEN DkReturn(RetOk(EscEsc), Append(dk_seq, o))
     ELSE IF o \in FINAL_LO..FINAL_HI
          THEN DkReturn(RetOk(EscCSI(Append(dk_buf, o))), Append(dk_seq, o))
          ELSE /\ dk_buf' = Append(dk_buf, o)
               /\ dk_seq' = Append(dk_seq, o)
               /\ UNCHANGED <<dk_pc, dk_ret>>
  /\ UNCHANGED <<edVars, hlVars, rdVars, tmVars>>

\* read_ss3 (read_key.rs:107-112)
DkSs3(o) ==
  /\ dk_pc = "ss3"
  /\ IF o = IoError THEN DkReturn(RetErr, Append(dk_seq, o))
     ELSE IF o = NoData THEN DkReturn(RetOk(EscEsc), Append(dk_seq, o))
     ELSE DkReturn(RetOk(EscSS3(o)), Append(dk_seq, o))
  /\ UNCHANGED <<edVars, hlVars, rdVars, tmVars>>


----------------------------------------------------------------------------
\* The editor (editor.rs).  The operations are written on a record e of the
\* fields they change: e.rows, e.cursor, e.offset; e.panic names the panic
\* that ended the operation ("" when there was none), and an operation
\* given a panicked e does nothing more.

Pos(x, y) == [x |-> x, y |-> y]
\* The ruleset of make_rust_syntax (syntax.rs:205-227), the only one there is.
RustSyntax == Some("rust")
EdWith(r, c, o, syn) ==
  [rows |-> r, cursor |-> c, offset |-> o, syntax |-> syn, panic |-> ""]
Ed(r, c, o) == EdWith(r, c, o, syntax)
Panic(e, msg) == [e EXCEPT !.panic = msg]
Texts(rws) == [i \in 1..Len(rws) |-> rws[i].text]

\* uclamp (editor.rs:12-18)
uclamp(a) == IF a < 0 THEN 0 ELSE a

\* isprint (editor.rs:20-28), in the C locale
isprint(b) == b \in 32..126

\* The result of find_char / rfind_char: Some(index), None, or the panic of
\* expect("byte did not correspond to char").
FoundAt(i) == [kind |-> "Some", idx |-> i]
NotFound == [kind |-> "None", idx |-> 0]
FindPanic == [kind |-> "Panic", idx |-> 0]

\* The character offsets at which q occurs in slice (str::find and
\* str::rfind match at char boundaries; the empty string matches at every
\* boundary, the end included).
Matches(slice, q) ==
  {i \in 0..(Len(slice) - Len(q)) : SubSeq(slice, i + 1, i + Len(q)) = q}

SetMin(S) == CHOOSE m \in S : \A n \in S : m <= n
SetMax(S) == CHOOSE m \in S : \A n \in S : m >= n

\* A variant of find_char that looks for the query in the whole line.
find_char_WholeLine(s, q, from_char) ==
  IF from_char < Len(s)
  THEN LET ms == Matches(s, q)
       IN IF ms = {} THEN NotFound
          ELSE IF SetMin(ms) < Len(s) THEN FoundAt(SetMin(ms))
          ELSE FindPanic
  ELSE NotFound

\* find_char (editor.rs:32-47)
find_char(s, q, from_char) ==
  IF from_char < Len(s)
  THEN LET slice == Drop(s, from_char)
           ms == Matches(slice, q)
       IN IF ms = {} THEN NotFound
          ELSE IF SetMin(ms) < Len(slice) THEN FoundAt(SetMin(ms) + from_char)
          ELSE FindPanic
  ELSE NotFound

\* rfind_char (editor.rs:51-66)
rfind_char(s, q, to_char) ==
  IF to_char < Len(s)
  THEN LET slice == Take(s, to_char)
           ms == Matches(slice, q)
       IN IF ms = {} THEN NotFound
          ELSE IF SetMax(ms) < Len(slice) THEN FoundAt(SetMax(ms))
          ELSE FindPanic
  ELSE NotFound

\* BufRead::lines as Editor::open uses it (editor.rs:183): the lines of a
\* file, each without its "\n" or "\r\n"; a last line that no "\n" ends keeps
\* a trailing "\r".
RECURSIVE ReadLines(_)
ReadLines(content) ==
  IF content = <<>> THEN <<>>
  ELSE IF \E i \in 1..Len(content) : content[i] = LF
  THEN LET i == SetMin({j \in 1..Len(content) : content[j] = LF})
           raw == SubSeq(content, 1, i - 1)
           line == IF raw # <<>> /\ raw[Len(raw)] = CR
                   THEN SubSeq(raw, 1, Len(raw) - 1) ELSE raw
       IN <<line>> \o ReadLines(Drop(content, i))
  ELSE <<content>>

\* A variant of save that writes each row's render form.
RECURSIVE SaveBytes_Render(_)
SaveBytes_Render(rws) ==
  IF rws = <<>> THEN <<>>
  ELSE Head(rws).render \o <<LF>> \o SaveBytes_Render(Tail(rws))

\* The bytes Editor::save writes (editor.rs:202-206): each row's text and "\n".
RECURSIVE SaveBytes(_)
SaveBytes(rws) ==
  IF rws = <<>> THEN <<>>
  ELSE Head(rws).text \o <<LF>> \o SaveBytes(Tail(rws))

\* The bytes of a character in UTF-8, as str::as_bytes gives them
\* (editor.rs:203).
Utf8(c) ==
  IF c < 128 THEN <<c>>
  ELSE IF c < 2048 THEN <<192 + (c \div 64), 128 + (c % 64)>>
  ELSE IF c < 65536
  THEN <<224 + (c \div 4096), 128 + ((c \div 64) % 64), 128 + (c % 64)>>
  ELSE <<240 + (c \div 262144), 128 + ((c \div 4096) % 64),
         128 + ((c \div 64) % 64), 128 + (c % 64)>>

\* The file that holds the first n bytes of the characters s: the whole
\* characters among them and, when the cut falls inside a character, the
\* bytes of that character that made it, each written as its negative to
\* tell it from a character.
RECURSIVE CutShort(_, _)
CutShort(s, n) ==
  IF n = 0 \/ s = <<>> THEN <<>>
  ELSE IF Utf8Len(Head(s)) <= n
  THEN <<Head(s)>> \o CutShort(Tail(s), n - Utf8Len(Head(s)))
  ELSE [i \in 1..n |-> 0 - Utf8(Head(s))[i]]

\* A variant of row_needs_rehighlight that asks only whether a highlight is
\* cached, never comparing it with the line above.
row_needs_rehighlight_NoCompare(rws, index) ==
  IF rws[index + 1].highlight # None THEN "no" ELSE "yes"

\* Editor::row_needs_rehighlight (editor.rs:286-308) where self.syntax is
\* Some: its only caller, update_row, calls it inside `if let Some(ref
\* syntax) = self.syntax` (editor.rs:313), so the test of line 287 never
\* holds.
row_needs_rehighlight(rws, index) ==
  IF index = 0
  THEN IF rws[1].highlight # None THEN "no" ELSE "yes"
  ELSE IF rws[index + 1].highlight # None
       THEN IF rws[index].highlight # None
            THEN IF rws[index + 1].highlight[1].initial_state
                      # rws[index].highlight[1].ending_state
                 THEN "yes" ELSE "no"
            ELSE "panic"
       ELSE "yes"

\* A variant of the loop that recomputes the edited line only and never goes
\* on to the lines below it.
UpdateRowLoop_OnlyEdited(rws, index) ==
  IF index >= Len(rws) THEN [rows |-> rws, panic |-> ""]
  ELSE LET need == row_needs_rehighlight(rws, index) IN
    IF need = "panic"
    THEN [rows |-> rws, panic |-> "row highlighted before above row"]
    ELSE IF need = "yes"
    THEN LET init_state ==
               IF index > 0 /\ rws[index].highlight # None
               THEN rws[index].highlight[1].ending_state
               ELSE "Normal"
             res == Highlight(init_state, rws[index + 1].render)
         IN IF res.panic
            THEN [rows |-> rws,
                  panic |-> "initial_state must be MultiLineComment or Normal"]
            ELSE [rows |-> [rws EXCEPT ![index + 1].highlight =
                              Some([highlight |-> res.highlight,
                                    initial_state |-> res.initial_state,
                                    ending_state |-> res.ending_state])],
                  panic |-> ""]
    ELSE [rows |-> rws, panic |-> ""]

\* The loop of Editor::update_row (editor.rs:314-336).
RECURSIVE UpdateRowLoop(_, _)
UpdateRowLoop(rws, index) ==
  IF index >= Len(rws) THEN [rows |-> rws, panic |-> ""]
  ELSE LET need == row_needs_rehighlight(rws, index) IN
    IF need = "panic"
    THEN [rows |-> rws, panic |-> "row highlighted before above row"]
    ELSE IF need = "yes"
    THEN LET init_state ==
               IF index > 0 /\ rws[index].highlight # None
               THEN rws[index].highlight[1].ending_state
               ELSE "Normal"
             res == Highlight(init_state, rws[index + 1].render)
         IN IF res.panic
            THEN [rows |-> rws,
                  panic |-> "initial_state must be MultiLineComment or Normal"]
            ELSE UpdateRowLoop(
                   [rws EXCEPT ![index + 1].highlight =
                      Some([highlight |-> res.highlight,
                            initial_state |-> res.initial_state,
                            ending_state |-> res.ending_state])],
                   index + 1)
    ELSE UpdateRowLoop(rws, index + 1)

\* Editor::update_row (editor.rs:310-338): without a ruleset the row is
\* updated (its highlight becomes None) and nothing is highlighted.
update_row(e, index, text) ==
  IF e.panic # "" THEN e
  ELSE LET updated == [e.rows EXCEPT ![index + 1] = RowUpdate(@, text)] IN
       IF e.syntax = None THEN [e EXCEPT !.rows = updated]
       ELSE LET r == UpdateRowLoop(updated, index)
            IN [e EXCEPT !.rows = r.rows, !.panic = r.panic]

\* Editor::fixup (editor.rs:510-520): row.text.len() is the length in bytes.
fixup(rws, p) ==
  IF p.y < Len(rws) /\ p.x > ByteLen(rws[p.y + 1].text)
  THEN Pos(ByteLen(rws[p.y + 1].text), p.y)
  ELSE p

\* A variant of scroll_to that scrolls up but never down.
scroll_to_UpOnly(off, p) ==
  IF p.y < off.y THEN [off EXCEPT !.y = p.y] ELSE off

\* Editor::scroll_to (editor.rs:522-530)
scroll_to(off, p) ==
  IF p.y < off.y THEN [off EXCEPT !.y = p.y]
  ELSE IF p.y >= off.y + screen.y THEN [off EXCEPT !.y = p.y - screen.y + 1]
  ELSE off

\* Editor::move_cursor_to (editor.rs:495-507)
move_cursor_to(e, p) ==
  IF e.panic # "" THEN e
  ELSE LET q == IF p.y >= Len(e.rows)
                THEN IF Len(e.rows) = 0 THEN Pos(p.x, 0)
                     ELSE Pos(p.x, Len(e.rows) - 1)
                ELSE p
       IN [e EXCEPT !.offset = scroll_to(e.offset, q), !.cursor = q]

\* Editor::move_cursor_by (editor.rs:532-554)
move_cursor_by(e, dx, dy) ==
  IF e.panic # "" THEN e
  ELSE LET c == IF dx # 0 THEN fixup(e.rows, e.cursor) ELSE e.cursor
           n == Pos(uclamp(c.x + dx), uclamp(c.y + dy))
           new_curs == IF dx # 0 THEN fixup(e.rows, n) ELSE n
       IN move_cursor_to(e, new_curs)

\* Editor::ensure_line_exists (editor.rs:563-567)
ensure_line_exists(e) ==
  IF Len(e.rows) <= e.cursor.y
  THEN [e EXCEPT !.rows = e.rows \o Repeat(e.cursor.y + 1 - Len(e.rows), RowNew)]
  ELSE e

\* Editor::insert_char (editor.rs:569-588).  String::insert takes a byte
\* offset and panics when it is not a char boundary.
insert_char(e0, ch) ==
  IF ch = LF THEN Panic(e0, "insert_char called with newline")
  ELSE LET e == ensure_line_exists(e0)
           cursor_fixup == fixup(e.rows, e.cursor)
           row_text == e.rows[e.cursor.y + 1].text
       IN IF ~IsCharBoundary(row_text, cursor_fixup.x)
          THEN Panic(e, "String::insert: not a char boundary")
          ELSE LET k == CharsBefore(row_text, cursor_fixup.x)
                   new_text == Take(row_text, k) \o <<ch>> \o Drop(row_text, k)
                   e2 == update_row(e, e.cursor.y, new_text)
               IN IF e2.panic # "" THEN e2
                  ELSE [e2 EXCEPT !.cursor.x = @ + 1]

\* Vec::insert(index, element)
VecInsert(v, index, el) == Take(v, index) \o <<el>> \o Drop(v, index)
\* Vec::remove(index)
VecRemove(v, index) == Take(v, index) \o Drop(v, index + 1)

\* Editor::insert_newline (editor.rs:590-612).  Slicing a str at a byte
\* offset that is not a char boundary panics.
insert_newline(e0) ==
  LET e == ensure_line_exists(e0)
      p == fixup(e.rows, e.cursor)
      row_text == e.rows[p.y + 1].text
  IN IF ~IsCharBoundary(row_text, p.x)
     THEN Panic(e, "str slice: not a char boundary")
     ELSE LET k == CharsBefore(row_text, p.x)
              row_left == Take(row_text, k)
              row_right == Drop(row_text, k)
              e2 == update_row(e, p.y, row_left)
              e3 == IF e2.panic # "" THEN e2
                    ELSE [e2 EXCEPT !.rows = VecInsert(e2.rows, p.y + 1, RowNew)]
              e4 == update_row(e3, p.y + 1, row_right)
          IN move_cursor_to(e4, Pos(0, p.y + 1))

\* Editor::backspace (editor.rs:614-640).  String::remove takes a byte offset
\* and panics when it is not a char boundary.
backspace(e0) ==
  LET e == ensure_line_exists(e0)
      p == fixup(e.rows, e.cursor)
  IN IF p.x = 0
     THEN IF p.y = 0 THEN e
          ELSE LET new_y == p.y - 1
                   new_x == ByteLen(e.rows[new_y + 1].text)
                   lower_row == e.rows[p.y + 1]
                   e2 == [e EXCEPT !.rows = VecRemove(e.rows, p.y)]
                   new_row_text == e2.rows[new_y + 1].text \o lower_row.text
                   e3 == update_row(e2, new_y, new_row_text)
               IN move_cursor_to(e3, Pos(new_x, new_y))
     ELSE LET row_text == e.rows[p.y + 1].text
          IN IF ~IsCharBoundary(row_text, p.x - 1)
             THEN Panic(e, "String::remove: not a char boundary")
             ELSE LET k == CharsBefore(row_text, p.x - 1)
                      e2 == update_row(e, p.y, Take(row_text, k) \o Drop(row_text, k + 1))
                  IN move_cursor_to(e2, Pos(p.x - 1, p.y))

\* Editor::search_forward (editor.rs:711-726): [e, found].
RECURSIVE search_forward(_, _)
search_forward(e, q) ==
  IF e.cursor.y >= Len(e.rows)
  THEN [e |-> Panic(e, "index out of bounds"), found |-> FALSE]
  ELSE LET r == find_char(e.rows[e.cursor.y + 1].text, q, e.cursor.x) IN
    IF r.kind = "Panic"
    THEN [e |-> Panic(e, "byte did not correspond to char"), found |-> FALSE]
    ELSE IF r.kind = "Some"
    THEN [e |-> move_cursor_to(e, Pos(r.idx, e.cursor.y)), found |-> TRUE]
    ELSE IF e.cursor.y + 1 = Len(e.rows) THEN [e |-> e, found |-> FALSE]
    ELSE search_forward(move_cursor_to(e, Pos(0, e.cursor.y + 1)), q)

\* Editor::search_backward (editor.rs:729-747): [e, found].
RECURSIVE search_backward(_, _)
search_backward(e, q) ==
  IF e.cursor.y >= Len(e.rows)
  THEN [e |-> Panic(e, "index out of bounds"), found |-> FALSE]
  ELSE LET r == rfind_char(e.rows[e.cursor.y + 1].text, q, e.cursor.x) IN
    IF r.kind = "Panic"
    THEN [e |-> Panic(e, "byte did not correspond to char"), found |-> FALSE]
    ELSE IF r.kind = "Some"
    THEN [e |-> move_cursor_to(e, Pos(r.idx, e.cursor.y)), found |-> TRUE]
    ELSE IF e.cursor.y = 0 THEN [e |-> e, found |-> FALSE]
    ELSE LET upper_line_len == Len(e.rows[e.cursor.y].text)
         IN search_backward(
              move_cursor_to(e, Pos(uclamp(upper_line_len - 1), e.cursor.y - 1)), q)

\* A variant of the search step that leaves the cursor where a failed scan
\* ended.
FindSearch_NoRestore(e, q, dir) ==
  LET r == IF dir >= 0
           THEN search_forward(IF dir > 0 THEN move_cursor_by(e, 1, 0) ELSE e, q)
           ELSE search_backward(e, q)
  IN r.e

\* The search that ends one iteration of the loop of Editor::find
\* (editor.rs:693-705).
FindSearch(e, q, dir) ==
  LET tmp_cursor == e.cursor
      r == IF dir >= 0
           THEN search_forward(IF dir > 0 THEN move_cursor_by(e, 1, 0) ELSE e, q)
           ELSE search_backward(e, q)
  IN IF r.found THEN r.e ELSE move_cursor_to(r.e, tmp_cursor)


----------------------------------------------------------------------------
\* The editor's actions: Editor::new and Editor::open (main.rs:47-52), then
\* one action per key handled (main.rs:56-66, Editor::handle_keypress,
\* editor.rs:444-477, and the loop of Editor::find, editor.rs:654-706).

\* Files opened: sequences of code points; 233 is a two-byte character.
Files ==
  { <<>>,
    <<SLASH, LF, STAR, LF, STAR, SLASH, LF>>,
    <<SLASH, LF, STAR, SLASH, LF, SLASH, STAR>>,
    <<233, LF, STAR, LF>>,
    <<STAR, SLASH, STAR, LF, LF, SLASH, STAR, LF>>,
    <<TAB, STAR, CR, LF, SLASH, CR>>,
    <<LF, STAR, SLASH, LF, SLASH, SLASH, LF, STAR>> }

\* Visible rows (the terminal's rows less the two status lines, editor.rs:167).
ScreenRows == {1, 2}

\* Keys pressed.
TypedChars == {STAR, SLASH, 233}
MoveKeys == {Key("ArrowUp"), Key("ArrowDown"), Key("ArrowLeft"), Key("ArrowRight"),
             Key("PageUp"), Key("PageDown")}
IgnoredKeys == {Key("Del"), KeyChar(CTRL_L)}
\* The bytes of the keys that edit: Enter as '\r' and as '\n', Backspace as
\* DEL and as Ctrl-H, and the characters typed.
EditBytes == {ENTER, LF, BACKSPACE, CTRL_H} \cup TypedChars
EditKeys == {KeyChar(b) : b \in EditBytes}

Snapshot ==
  [texts |-> Texts(rows), cursor |-> cursor, offset |-> offset, mode |-> mode,
   query |-> query, direction |-> direction, disk |-> disk, status |-> status_msg,
   saved_cursor |-> saved_cursor, saved_offset |-> saved_offset]

NoKey == Key("None")
OpOf(name, key, panic) == [name |-> name, key |-> key, panic |-> panic]

\* Editor::new (editor.rs:165-175)
EdInit ==
  /\ rows = <<>>
  /\ cursor = Pos(1, 0)
  /\ offset = Pos(0, 0)
  /\ screen \in {Pos(80, r) : r \in ScreenRows}
  /\ status_msg = "none"
  /\ syntax = RustSyntax
  /\ mode = "new"
  /\ query = <<>>
  /\ direction = 0
  /\ saved_cursor = Pos(0, 0)
  /\ saved_offset = Pos(0, 0)
  /\ disk \in Files
  /\ steps = 0
  /\ op = OpOf("new", NoKey, "")
  /\ pre = [texts |-> <<>>, cursor |-> Pos(1, 0), offset |-> Pos(0, 0),
            mode |-> "new", query |-> <<>>, direction |-> 0, disk |-> <<>>,
            status |-> "none", saved_cursor |-> Pos(0, 0),
            saved_offset |-> Pos(0, 0)]
  /\ hist = [opened |-> <<>>, edited |-> FALSE]

\* The editor when a specification does not use it.
EdOff ==
  /\ rows = <<>>
  /\ cursor = Pos(0, 0)
  /\ offset = Pos(0, 0)
  /\ screen = Pos(0, 0)
  /\ status_msg = "none"
  /\ syntax = None
  /\ mode = "off"
  /\ query = <<>>
  /\ direction = 0
  /\ saved_cursor = Pos(0, 0)
  /\ saved_offset = Pos(0, 0)
  /\ disk = <<>>
  /\ steps = 0
  /\ op = OpOf("off", NoKey, "")
  /\ pre = [texts |-> <<>>, cursor |-> Pos(0, 0), offset |-> Pos(0, 0),
            mode |-> "off", query |-> <<>>, direction |-> 0, disk |-> <<>>,
            status |-> "none", saved_cursor |-> Pos(0, 0),
            saved_offset |-> Pos(0, 0)]
  /\ hist = [opened |-> <<>>, edited |-> FALSE]

\* The loop of Editor::open (editor.rs:183-188)
RECURSIVE OpenLoop(_, _)
OpenLoop(e, lines) ==
  IF lines = <<>> THEN e
  ELSE OpenLoop(update_row([e EXCEPT !.rows = Append(@, RowNew)],
                           Len(e.rows), Head(lines)),
                Tail(lines))

\* The end of an operation that leaves the editor as e: a panic ends the
\* program where it stood.
Commit(e, newmode, newstatus, name, key) ==
  /\ op' = OpOf(name, key, e.panic)
  /\ pre' = Snapshot
  /\ hist' = IF name = "open" THEN [opened |-> disk, edited |-> FALSE]
             ELSE IF name \in {"insert_char", "insert_newline", "backspace"}
             THEN [hist EXCEPT !.edited = TRUE]
             ELSE hist
  /\ IF e.panic # ""
     THEN /\ mode' = "panicked"
          /\ UNCHANGED <<rows, cursor, offset, status_msg>>
     ELSE /\ rows' = e.rows
          /\ cursor' = e.cursor
          /\ offset' = e.offset
          /\ mode' = newmode
          /\ status_msg' = newstatus
  /\ UNCHANGED syntax

Cur == Ed(rows, cursor, offset)

\* Editor::open (editor.rs:177-193), called with the ruleset Editor::new
\* set (main.rs:47, 52)
Open ==
  /\ mode = "new"
  /\ Commit(OpenLoop(Ed(<<>>, cursor, offset), ReadLines(disk)), "opened",
            status_msg, "open", NoKey)
  /\ UNCHANGED <<screen, query, direction, saved_cursor, saved_offset, disk, steps>>
  /\ UNCHANGED <<dkVars, hlVars, rdVars, tmVars>>

\* editor.set_syntax(...) (main.rs:54): the ruleset of the session is
\* selected once, at the start of the session, and stays.  The one ruleset
\* there is is that of make_rust_syntax, which Editor::new has set and
\* Editor::open has highlighted the lines with, so no highlight is stale.
SetSyntax ==
  /\ mode = "opened"
  /\ mode' = "idle"
  /\ syntax' = RustSyntax
  /\ UNCHANGED <<rows, cursor, offset, screen, status_msg, query, direction,
                 saved_cursor, saved_offset, disk, steps, op, pre, hist>>
  /\ UNCHANGED <<dkVars, hlVars, rdVars, tmVars>>

\* editor.refresh_screen().unwrap() at the head of the main loop
\* (main.rs:57): when the screen cannot be written the unwrap panics, before
\* a key is read, and the program ends with the editor as it stood.
RefreshFails ==
  /\ mode = "idle"
  /\ Commit(Panic(Cur, "refresh_screen failed"), "idle", status_msg,
            "refresh_screen", NoKey)
  /\ UNCHANGED <<screen, query, direction, saved_cursor, saved_offset, disk, steps>>
  /\ UNCHANGED <<dkVars, hlVars, rdVars, tmVars>>

\* A key arrives in the main loop.
KeyGuard ==
  /\ mode = "idle"
  /\ steps < MaxSteps
  /\ steps' = steps + 1
  /\ UNCHANGED <<dkVars, hlVars, rdVars, tmVars>>

\* A variant of the match of handle_keypress in which only Char(ENTER) is an
\* Enter key, so that Char('\n') falls to the last Char arm.
handle_keypress_EnterOnly(key) ==
  IF key.k = "Char"
  THEN CASE key.ch = CTRL_C -> "ignored"
         [] key.ch = CTRL_Q -> "quit"
         [] key.ch = CTRL_S -> "save"
         [] key.ch = CTRL_F -> "find"
         [] key.ch = ENTER -> "insert_newline"
         [] key.ch \in {BACKSPACE, CTRL_H} -> "backspace"
         [] key.ch = CTRL_L -> "ignored"
         [] OTHER -> "insert_char"
  ELSE IF key \in MoveKeys THEN "move" ELSE "ignored"

\* The match of Editor::handle_keypress (editor.rs:448-474): the arm that
\* takes the key, the first one that fits.
handle_keypress(key) ==
  IF key.k = "Char"
  THEN CASE key.ch = CTRL_C -> "ignored"
         [] key.ch = CTRL_Q -> "quit"
         [] key.ch = CTRL_S -> "save"
         [] key.ch = CTRL_F -> "find"
         [] key.ch \in {ENTER, LF} -> "insert_newline"
         [] key.ch \in {BACKSPACE, CTRL_H} -> "backspace"
         [] key.ch = CTRL_L -> "ignored"
         [] OTHER -> "insert_char"
  ELSE IF key \in MoveKeys THEN "move" ELSE "ignored"

\* Char(CTRL_C), Char(CTRL_L), unknown keys (editor.rs:449,471,473)
KeyIgnored(key) ==
  /\ KeyGuard
  /\ handle_keypress(key) = "ignored"
  /\ Commit(Cur, "idle", status_msg, "ignored", key)
  /\ UNCHANGED <<screen, query, direction, saved_cursor, saved_offset, disk>>

\* Char(CTRL_Q) (editor.rs:450)
KeyQuit ==
  /\ KeyGuard
  /\ handle_keypress(KeyChar(CTRL_Q)) = "quit"
  /\ Commit(Cur, "quit", status_msg, "quit", KeyChar(CTRL_Q))
  /\ UNCHANGED <<screen, query, direction, saved_cursor, saved_offset, disk>>

\* Char(CTRL_S) (editor.rs:451-457) and Editor::save (editor.rs:195-209).
\* When save returns an error the file is untouched (create failed) or cut
\* short (a write failed).  save does not flush its BufWriter: what
\* write_all left in the buffer is written when the writer is dropped at the
\* end of save, and an error of that write is discarded, so save returns Ok
\* with the file created and cut short after any number of its bytes (the
\* write stops where the device or a file size limit stops it).
KeySave ==
  /\ KeyGuard
  /\ handle_keypress(KeyChar(CTRL_S)) = "save"
  /\ \/ /\ disk' = SaveBytes(rows)
        /\ Commit(Cur, "idle", "saved", "save", KeyChar(CTRL_S))
     \/ /\ disk' \in {disk, <<>>}
        /\ Commit(Cur, "idle", "error", "save_failed", KeyChar(CTRL_S))
     \/ /\ \E n \in 0..(ByteLen(SaveBytes(rows)) - 1) :
             disk' = CutShort(SaveBytes(rows), n)
        /\ Commit(Cur, "idle", "saved", "save_unflushed", KeyChar(CTRL_S))
  /\ UNCHANGED <<screen, query, direction, saved_cursor, saved_offset>>

\* Char(CTRL_F): Editor::find up to its first read of a key (editor.rs:642-658)
KeyFind ==
  /\ KeyGuard
  /\ handle_keypress(KeyChar(CTRL_F)) = "find"
  /\ query' = <<>>
  /\ direction' = 0
  /\ saved_cursor' = cursor
  /\ saved_offset' = offset
  /\ Commit(Cur, "search", "search", "find", KeyChar(CTRL_F))
  /\ UNCHANGED <<screen, disk>>

\* Char(ENTER) | Char('\n') (editor.rs:464-465)
KeyNewline(key) ==
  /\ KeyGuard
  /\ handle_keypress(key) = "insert_newline"
  /\ Commit(insert_newline(Cur), "idle", status_msg, "insert_newline", key)
  /\ UNCHANGED <<screen, query, direction, saved_cursor, saved_offset, disk>>

\* Char(BACKSPACE) | Char(CTRL_H) (editor.rs:466-467)
KeyBackspace(key) ==
  /\ KeyGuard
  /\ handle_keypress(key) = "backspace"
  /\ Commit(backspace(Cur), "idle", status_msg, "backspace", key)
  /\ UNCHANGED <<screen, query, direction, saved_cursor, saved_offset, disk>>

\* Editor::handle_cursor_move_keypress (editor.rs:479-493)
DeltaOf(key) ==
  CASE key.k = "ArrowUp" -> [dx |-> 0, dy |-> -1]
    [] key.k = "ArrowDown" -> [dx |-> 0, dy |-> 1]
    [] key.k = "ArrowLeft" -> [dx |-> -1, dy |-> 0]
    [] key.k = "ArrowRight" -> [dx |-> 1, dy |-> 0]
    [] key.k = "PageUp" -> [dx |-> 0, dy |-> -screen.y]
    [] key.k = "PageDown" -> [dx |-> 0, dy |-> screen.y]

KeyMove(key) ==
  /\ KeyGuard
  /\ handle_keypress(key) = "move"
  /\ Commit(move_cursor_by(Cur, DeltaOf(key).dx, DeltaOf(key).dy), "idle",
            status_msg, "move", key)
  /\ UNCHANGED <<screen, query, direction, saved_cursor, saved_offset, disk>>

\* Char(ch) (editor.rs:472)
KeyInsert(ch) ==
  /\ KeyGuard
  /\ handle_keypress(KeyChar(ch)) = "insert_char"
  /\ Commit(insert_char(Cur, ch), "idle", status_msg, "insert_char", KeyChar(ch))
  /\ UNCHANGED <<screen, query, direction, saved_cursor, saved_offset, disk>>

\* A key arrives in the loop of Editor::find.
SearchGuard ==
  /\ mode = "search"
  /\ steps < MaxSteps
  /\ steps' = steps + 1
  /\ UNCHANGED <<dkVars, hlVars, rdVars, tmVars>>

\* interpret() gives None: continue (editor.rs:660-666)
SearchNoEvent ==
  /\ SearchGuard
  /\ Commit(Cur, "search", "search", "search_no_event", NoKey)
  /\ UNCHANGED <<screen, query, direction, saved_cursor, saved_offset, disk>>

\* refresh_screen or read_escape fails: find returns the error and
\* handle_keypress reports it (editor.rs:658,661,459-462)
SearchIoError ==
  /\ SearchGuard
  /\ Commit(Cur, "idle", "error", "search_io_error", NoKey)
  /\ UNCHANGED <<screen, query, direction, saved_cursor, saved_offset, disk>>

\* A variant of the exit in which Escape restores the cursor but not the
\* offset.
SearchExit_CursorOnly(key) ==
  /\ SearchGuard
  /\ Commit(IF key.k = "Esc" THEN Ed(rows, saved_cursor, offset) ELSE Cur,
            "idle", "empty", "search_exit", key)
  /\ UNCHANGED <<screen, query, direction, saved_cursor, saved_offset, disk>>

\* Esc | Char(ENTER) | Char('\n') (editor.rs:672-680)
SearchExit(key) ==
  /\ SearchGuard
  /\ Commit(IF key.k = "Esc" THEN Ed(rows, saved_cursor, saved_offset) ELSE Cur,
            "idle", "empty", "search_exit", key)
  /\ UNCHANGED <<screen, query, direction, saved_cursor, saved_offset, disk>>

\* The match of editor.rs:668-691 on every other key.
QueryAfter(q, key) ==
  IF key.k = "Char" /\ key.ch \in {CTRL_H, BACKSPACE}
  THEN SubSeq(q, 1, Len(q) - 1)
  ELSE IF key.k = "Char" /\ isprint(key.ch) THEN Append(q, key.ch)
  ELSE q

DirectionAfter(d, key) ==
  IF key.k \in {"ArrowRight", "ArrowDown"} THEN 1
  ELSE IF key.k \in {"ArrowLeft", "ArrowUp"} THEN -1
  ELSE d

\* One full iteration of the loop on a key that does not leave it
\* (editor.rs:668-705, then 655-658).
SearchKey(key) ==
  /\ SearchGuard
  /\ query' = QueryAfter(query, key)
  /\ direction' = DirectionAfter(direction, key)
  /\ Commit(FindSearch(Cur, QueryAfter(query, key), DirectionAfter(direction, key)),
            "search", "search", "search_key", key)
  /\ UNCHANGED <<screen, saved_cursor, saved_offset, disk>>

SearchKeys ==
  {Key("ArrowUp"), Key("ArrowDown"), Key("ArrowLeft"), Key("ArrowRight"),
   Key("Del"), KeyChar(BACKSPACE), KeyChar(233), KeyChar(STAR), KeyChar(SLASH)}

\* The harnesses when a specification does not use them.
DkOff == dk_pc = "off" /\ dk_buf = <<>> /\ dk_seq = <<>> /\ dk_ret = None
HlOff == hl_state = "Normal" /\ hl_text = <<>> /\ hl_res = None /\ hl_line = 0
RdOff == rd_text = <<>> /\ rd_row = None
TmOff ==
  /\ tm_tty = [base |-> 0, raw |-> FALSE]
  /\ tm_orig = None
  /\ tm_first = None
  /\ tm_pc = "off"
  /\ tm_exit = "none"
  /\ tm_warned = FALSE
  /\ tm_calls = 0

Init == EdInit /\ DkOff /\ HlOff /\ RdOff /\ TmOff

Next ==
  \/ Open
  \/ SetSyntax
  \/ RefreshFails
  \/ \E key \in IgnoredKeys : KeyIgnored(key)
  \/ KeyQuit
  \/ KeySave
  \/ KeyFind
  \/ \E key \in EditKeys : KeyNewline(key)
  \/ \E key \in EditKeys : KeyBackspace(key)
  \/ \E key \in MoveKeys : KeyMove(key)
  \/ \E ch \in EditBytes : KeyInsert(ch)
  \/ SearchNoEvent
  \/ SearchIoError
  \/ \E key \in {Key("Esc"), KeyChar(ENTER), KeyChar(LF)} : SearchExit(key)
  \/ \E key \in SearchKeys : SearchKey(key)

Spec == Init /\ [][Next]_vars

\* The keys that edit the buffer or move the cursor, without search and save:
\* the buffers they reach are the buffers of Spec, which the other keys leave
\* as they are.
NextEdit ==
  \/ Open
  \/ SetSyntax
  \/ RefreshFails
  \/ \E key \in EditKeys : KeyNewline(key)
  \/ \E key \in EditKeys : KeyBackspace(key)
  \/ \E key \in MoveKeys : KeyMove(key)
  \/ \E ch \in EditBytes : KeyInsert(ch)

SpecEdit == Init /\ [][NextEdit]_vars

\* The search loop alone: Editor::find has just been entered (editor.rs:646-
\* 650) from the main loop with a file open, the cursor anywhere in the
\* buffer and the window around it.
Windows(c) == {Pos(0, oy) : oy \in uclamp(c.y - screen.y + 1)..c.y}
\* Columns up to one past the longest line of the buffer, in bytes, and the
\* cursors on the lines of the buffer.  A buffer of no lines has its cursor
\* on line 0 (Editor::new puts it at (1, 0), editor.rs:171, and the cursor
\* keys move it along that line): the columns the keys of Spec reach.
Columns(rws) == 0..(SetMax({0} \cup {ByteLen(rws[i].text) : i \in 1..Len(rws)}) + 1)
Cursors(rws) ==
  IF rws = <<>> THEN {Pos(x, 0) : x \in 0..(MaxSteps + 1)}
  ELSE {Pos(x, y) : x \in Columns(rws), y \in 0..(Len(rws) - 1)}

InitSearch ==
  /\ DkOff /\ HlOff /\ RdOff /\ TmOff
  /\ screen \in {Pos(80, r) : r \in ScreenRows}
  /\ disk \in Files
  /\ syntax = RustSyntax
  /\ rows = OpenLoop(EdWith(<<>>, Pos(1, 0), Pos(0, 0), RustSyntax),
                     ReadLines(disk)).rows
  /\ cursor \in Cursors(rows)
  /\ offset \in Windows(cursor)
  /\ status_msg = "search"
  /\ mode = "search"
  /\ query = <<>>
  /\ direction = 0
  /\ saved_cursor = cursor
  /\ saved_offset = offset
  /\ steps = 0
  /\ op = OpOf("find", KeyChar(CTRL_F), "")
  /\ pre = [texts |-> Texts(rows), cursor |-> cursor, offset |-> offset,
            mode |-> "idle", query |-> <<>>, direction |-> 0, disk |-> disk,
            status |-> "none", saved_cursor |-> Pos(0, 0),
            saved_offset |-> Pos(0, 0)]
  /\ hist = [opened |-> disk, edited |-> FALSE]

NextSearch ==
  \/ SearchNoEvent
  \/ SearchIoError
  \/ \E key \in {Key("Esc"), KeyChar(ENTER), KeyChar(LF)} : SearchExit(key)
  \/ \E key \in SearchKeys : SearchKey(key)

SpecSearch == InitSearch /\ [][NextSearch]_vars


----------------------------------------------------------------------------
\* The key decoder alone: calls of read_escape on a stream whose polls give
\* any byte of DkBytes, no data, or an error.

InitKey ==
  /\ EdOff /\ HlOff /\ RdOff /\ TmOff
  /\ dk_pc = "idle"
  /\ dk_buf = <<>>
  /\ dk_seq = <<>>
  /\ dk_ret = None

NextKey ==
  \/ DkCall
  \/ \E o \in DkOutcomes : DkReadByte(o)
  \/ \E o \in DkOutcomes : DkEscape(o)
  \/ \E o \in DkOutcomes : DkCsi(o)
  \/ \E o \in DkOutcomes : DkSs3(o)

SpecKey == InitKey /\ [][NextKey]_vars

\* The polls made after the ESC byte.  Each is one read of a terminal set up
\* with VMIN = 0 and VTIME = 1 (editor.rs:240-241): it returns within the
\* timeout, with a byte or with none, so a call that is past its ESC byte
\* takes its next step.  The poll for the first byte (read_byte) is under no
\* such condition: it waits as long as no key is pressed.
DkAfterEsc ==
  \/ \E o \in DkOutcomes : DkEscape(o)
  \/ \E o \in DkOutcomes : DkCsi(o)
  \/ \E o \in DkOutcomes : DkSs3(o)

SpecKeyLive == InitKey /\ [][NextKey]_vars /\ WF_vars(DkAfterEsc)

----------------------------------------------------------------------------
\* Syntax::highlight alone: a line is highlighted with a carry-in; the line
\* after it is highlighted with the ending_state of the first as carry-in
\* (editor.rs:320-331).

HlChars == {SLASH, STAR, DQUOTE, SQUOTE, BACKSLASH, SPACE, 97, 49, 233}
LineOpenA == <<SLASH, STAR, SPACE, 97>>
LineBClose == <<98, SPACE, STAR, SLASH>>
\* "if .1" and "u8_"
LineKeyword == <<105, 102, SPACE, DOT, 49>>
LineType == <<117, 56, UNDERSCORE>>
\* a string with a run of three backslashes before a quote, and a character
\* after it
LineEscapes == <<DQUOTE, BACKSLASH, BACKSLASH, BACKSLASH, DQUOTE, 97>>
HlTexts ==
  SeqsUpTo(HlChars, MaxHlLen)
    \cup {LineOpenA, LineBClose, LineKeyword, LineType, LineEscapes}

InitHl ==
  /\ EdOff /\ DkOff /\ RdOff /\ TmOff
  /\ hl_state \in {"Normal", "MultiLineComment"}
  /\ hl_text \in HlTexts
  /\ hl_res = None
  /\ hl_line = 1

HlRun ==
  /\ hl_line \in {1, 2}
  /\ hl_res = None
  /\ hl_res' = Some(Highlight(hl_state, hl_text))
  /\ UNCHANGED <<hl_state, hl_text, hl_line>>
  /\ UNCHANGED <<edVars, dkVars, rdVars, tmVars>>

\* The next line's carry-in is this line's ending_state.
HlCarry ==
  /\ hl_line = 1
  /\ hl_res # None
  /\ hl_state' = hl_res[1].ending_state
  /\ hl_text' = <<>>
  /\ hl_res' = None
  /\ hl_line' = 0
  /\ UNCHANGED <<edVars, dkVars, rdVars, tmVars>>

HlNextLine ==
  /\ hl_line = 0
  /\ \E t \in HlTexts : hl_text' = t
  /\ hl_line' = 2
  /\ UNCHANGED <<hl_state, hl_res>>
  /\ UNCHANGED <<edVars, dkVars, rdVars, tmVars>>

NextHl ==
  \/ HlRun
  \/ HlCarry
  \/ HlNextLine

SpecHl == InitHl /\ [][NextHl]_vars

----------------------------------------------------------------------------
\* Row::update alone.

RenderChars == {TAB, 97, 233}

InitRender ==
  /\ EdOff /\ DkOff /\ HlOff /\ TmOff
  /\ rd_text \in SeqsUpTo(RenderChars, MaxRenderLen)
  /\ rd_row = None

RdUpdate ==
  /\ rd_row = None
  /\ rd_row' = Some(RowUpdate(RowNew, rd_text))
  /\ UNCHANGED rd_text
  /\ UNCHANGED <<edVars, dkVars, hlVars, tmVars>>

\* Row::update on the render form the row holds.
RdAgain ==
  /\ rd_row # None
  /\ rd_text # rd_row[1].render
  /\ rd_text' = rd_row[1].render
  /\ rd_row' = Some(RowUpdate(rd_row[1], rd_row[1].render))
  /\ UNCHANGED <<edVars, dkVars, hlVars, tmVars>>

NextRender == RdUpdate \/ RdAgain

SpecRender == InitRender /\ [][NextRender]_vars


----------------------------------------------------------------------------
\* Raw mode alone: calls of Editor::enable_raw_mode, then the end of the
\* program and Drop for Editor.  The attributes of a terminal are a record:
\* base stands for all that raw mode leaves alone, raw says whether the flags
\* raw mode clears and sets are as raw mode wants them.

TtyAttrs == [base : {0, 1}, raw : BOOLEAN]

\* The flag changes of editor.rs:229-242.
MakeRaw(t) == [t EXCEPT !.raw = TRUE]

InitRaw ==
  /\ EdOff /\ DkOff /\ HlOff /\ RdOff
  /\ tm_tty \in TtyAttrs
  /\ tm_orig = None
  /\ tm_first = None
  /\ tm_pc = "alive"
  /\ tm_exit = "none"
  /\ tm_warned = FALSE
  /\ tm_calls = 0

\* What a call of enable_raw_mode meets: tcgetattr fails, stdin is not a
\* terminal, tcsetattr fails, or all succeed.
EnableOutcomes == {"get_fails", "not_tty", "set_fails", "ok"}

\* A variant of enable_raw_mode without the early return for a second call.
EnableRawMode_NoGuard(outcome) ==
  /\ tm_pc = "alive"
  /\ tm_calls < MaxEnable
  /\ tm_calls' = tm_calls + 1
  /\ IF outcome = "get_fails" \/ outcome = "set_fails"
     THEN UNCHANGED <<tm_tty, tm_orig, tm_first, tm_pc, tm_exit>>
     ELSE IF outcome = "not_tty"
     THEN /\ tm_pc' = "unwinding"
          /\ tm_exit' = "panic"
          /\ UNCHANGED <<tm_tty, tm_orig, tm_first>>
     ELSE /\ tm_tty' = MakeRaw(tm_tty)
          /\ tm_orig' = Some(tm_tty)
          /\ tm_first' = IF tm_first = None THEN Some(tm_tty) ELSE tm_first
          /\ UNCHANGED <<tm_pc, tm_exit>>
  /\ UNCHANGED tm_warned
  /\ UNCHANGED <<edVars, dkVars, hlVars, rdVars>>

\* Editor::enable_raw_mode (editor.rs:211-249)
EnableRawMode(outcome) ==
  /\ tm_pc = "alive"
  /\ tm_calls < MaxEnable
  /\ tm_calls' = tm_calls + 1
  /\ IF tm_orig # None
     THEN UNCHANGED <<tm_tty, tm_orig, tm_first, tm_pc, tm_exit>>
     ELSE IF outcome = "get_fails" \/ outcome = "set_fails"
     THEN UNCHANGED <<tm_tty, tm_orig, tm_first, tm_pc, tm_exit>>
     ELSE IF outcome = "not_tty"
     THEN /\ tm_pc' = "unwinding"
          /\ tm_exit' = "panic"
          /\ UNCHANGED <<tm_tty, tm_orig, tm_first>>
     ELSE /\ tm_tty' = MakeRaw(tm_tty)
          /\ tm_orig' = Some(tm_tty)
          /\ tm_first' = IF tm_first = None THEN Some(tm_tty) ELSE tm_first
          /\ UNCHANGED <<tm_pc, tm_exit>>
  /\ UNCHANGED tm_warned
  /\ UNCHANGED <<edVars, dkVars, hlVars, rdVars>>

\* The ways the program leaves main with the Editor alive: the quit key
\* (main.rs:62-64), an error unwrapped in main (main.rs:47-57) or a panic
\* inside the editor; the last two unwind.
ExitPaths == {"quit", "error", "panic"}

\* Drop for Editor (editor.rs:750-756) with Editor::disable_raw_mode
\* (editor.rs:251-258); restore_ok says whether tcsetattr succeeds and
\* print_ok whether the println! of the warning can write to stdout.  A
\* println! that cannot write panics: after the quit key the panic leaves
\* drop and ends the program ("drop_panicked"); on a path that is already
\* unwinding it is a second panic and the process aborts ("aborted").
DropEditor(path, restore_ok, print_ok) ==
  /\ tm_pc \in {"alive", "unwinding"}
  /\ tm_pc = "unwinding" => path = tm_exit
  /\ tm_exit' = path
  /\ IF tm_orig # None
     THEN IF restore_ok
          THEN /\ tm_tty' = tm_orig[1]
               /\ tm_orig' = None
               /\ tm_pc' = "dropped"
               /\ UNCHANGED tm_warned
          ELSE IF print_ok
          THEN /\ tm_warned' = TRUE
               /\ tm_pc' = "dropped"
               /\ UNCHANGED <<tm_tty, tm_orig>>
          ELSE /\ tm_pc' = IF path = "quit" THEN "drop_panicked" ELSE "aborted"
               /\ UNCHANGED <<tm_tty, tm_orig, tm_warned>>
     ELSE /\ tm_pc' = "dropped"
          /\ UNCHANGED <<tm_tty, tm_orig, tm_warned>>
  /\ UNCHANGED <<tm_first, tm_calls>>
  /\ UNCHANGED <<edVars, dkVars, hlVars, rdVars>>

NextRaw ==
  \/ \E outcome \in EnableOutcomes : EnableRawMode(outcome)
  \/ \E path \in ExitPaths, restore_ok \in BOOLEAN, print_ok \in BOOLEAN :
       DropEditor(path, restore_ok, print_ok)

SpecRaw == InitRaw /\ [][NextRaw]_vars

----------------------------------------------------------------------------
\* Properties.

IsSome(o) == o # None
HlOf(rws, i) == rws[i].highlight[1]
AllTag(tags, t) == \A i \in 1..Len(tags) : tags[i] = t

\* C1: in every state of the editor, for every line i > 0 with a cached
\* highlight, line i-1 has one too and the initial_state of line i equals the
\* ending_state of line i-1; line 0's cached initial_state is Normal.
C1_HighlightChain ==
  \A i \in 1..Len(rows) :
    IsSome(rows[i].highlight) =>
      IF i = 1 THEN HlOf(rows, 1).initial_state = "Normal"
      ELSE /\ IsSome(rows[i - 1].highlight)
           /\ HlOf(rows, i).initial_state = HlOf(rows, i - 1).ending_state

\* C1's case: a typed character on line 0 opened a block comment that now
\* reaches line 2.
C1_Witness ==
  /\ op.name = "insert_char"
  /\ mode = "idle"
  /\ cursor.y = 0
  /\ Len(rows) >= 3
  /\ IsSome(rows[3].highlight)
  /\ HlOf(rows, 3).initial_state = "MultiLineComment"
  /\ HlOf(rows, 2).ending_state = "MultiLineComment"

\* What the claim C2 asks of a block-comment scan that starts after the first
\* `start` characters of s: the tags r holds are MultiLineComment up to and
\* including the first "*/" that begins at or after the scan start, the rest
\* is scanned as from state Normal; without a "*/" everything is
\* MultiLineComment and the line ends inside the comment.
ClosesAtFirstTerminator(s, start, r) ==
  LET T == {i \in (start + 1)..(Len(s) - 1) : s[i] = STAR /\ s[i + 1] = SLASH}
  IN IF T = {}
     THEN /\ r.highlight = Repeat(Len(s), "MultiLineComment")
          /\ r.ending_state = "MultiLineComment"
     ELSE LET p == SetMin(T)
              rest == Highlight("Normal", Drop(s, p + 1))
          IN /\ r.highlight = Repeat(p + 1, "MultiLineComment") \o rest.highlight
             /\ r.ending_state = rest.ending_state

\* C2: for every line, with a carry-in MultiLineComment or a "/*" opening the
\* line, the comment ends with the first "*/" after the scan start (also in
\* "**/"); the line "/* a" ends in MultiLineComment and the line "b */"
\* after it is MultiLineComment through "*/" and ends Normal.
C2_FirstTerminatorCloses ==
  IsSome(hl_res) =>
    /\ hl_state = "MultiLineComment" => ClosesAtFirstTerminator(hl_text, 0, hl_res[1])
    /\ (hl_state = "Normal" /\ Take(hl_text, 2) = <<SLASH, STAR>>)
         => ClosesAtFirstTerminator(hl_text, 2, hl_res[1])
    /\ (hl_line = 1 /\ hl_state = "Normal" /\ hl_text = LineOpenA)
         => hl_res[1].ending_state = "MultiLineComment"
    /\ (hl_line = 2 /\ hl_state = "MultiLineComment" /\ hl_text = LineBClose)
         => /\ AllTag(hl_res[1].highlight, "MultiLineComment")
            /\ hl_res[1].ending_state = "Normal"

\* C3: a first byte other than ESC returns Char(b) after that one byte; ESC
\* and then a timed-out poll returns Esc after that one byte and that one
\* poll; ESC [ A gives ArrowUp and ESC [ 3 ~ gives Del and the call ends with
\* the last byte of the sequence; between calls the decoder holds no state.
DkKey == IF IsSome(dk_ret) /\ dk_ret[1].kind = "Ok" THEN Interpret(dk_ret[1].esc) ELSE None
DkReturned == dk_pc = "idle" /\ IsSome(dk_ret)
StartsWith(s, prefix) == Len(s) >= Len(prefix) /\ SubSeq(s, 1, Len(prefix)) = prefix

C3_DecodeSequences ==
  /\ dk_pc = "idle" => dk_buf = <<>>
  /\ (Len(dk_seq) >= 1 /\ dk_seq[1] \in DkBytes \ {ESC})
       => /\ DkReturned
          /\ dk_seq = <<dk_seq[1]>>
          /\ dk_ret[1] = RetOk(EscChar(dk_seq[1]))
          /\ DkKey = Some(KeyChar(dk_seq[1]))
  /\ StartsWith(dk_seq, <<ESC, NoData>>)
       => /\ DkReturned
          /\ dk_seq = <<ESC, NoData>>
          /\ dk_ret[1] = RetOk(EscEsc)
          /\ DkKey = Some(Key("Esc"))
  /\ StartsWith(dk_seq, <<ESC, LBRACKET, 65>>)
       => /\ DkReturned
          /\ dk_seq = <<ESC, LBRACKET, 65>>
          /\ DkKey = Some(Key("ArrowUp"))
  /\ StartsWith(dk_seq, <<ESC, LBRACKET, 51, 126>>)
       => /\ DkReturned
          /\ dk_seq = <<ESC, LBRACKET, 51, 126>>
          /\ DkKey = Some(Key("Del"))

\* C3's case: the call that read ESC [ 3 ~ has returned.
C3_Witness ==
  /\ DkReturned
  /\ dk_seq = <<ESC, LBRACKET, 51, 126>>
  /\ DkKey = Some(Key("Del"))

\* The table of the claim C4 for what follows ESC '['.
CsiTable(seq) ==
  CASE seq = <<51, 126>> -> Some(Key("Del"))
    [] seq = <<53, 126>> -> Some(Key("PageUp"))
    [] seq = <<54, 126>> -> Some(Key("PageDown"))
    [] seq = <<65>> -> Some(Key("ArrowUp"))
    [] seq = <<66>> -> Some(Key("ArrowDown"))
    [] seq = <<67>> -> Some(Key("ArrowRight"))
    [] seq = <<68>> -> Some(Key("ArrowLeft"))
    [] seq = <<72>> -> Some(Key("Home"))
    [] seq = <<70>> -> Some(Key("End"))
    [] OTHER -> None

IsFinal(b) == b >= 64 /\ b <= 126
AllBytes(s) == \A i \in 1..Len(s) : s[i] \in DkBytes

\* C4: when a call that read ESC and then only bytes has returned: after
\* ESC '[' it read up to and including the first byte in 0x40..0x7E and the
\* key is the table's entry for those bytes (no event when there is none);
\* after ESC 'O' it read exactly one more byte, H is Home, F is End, anything
\* else no event; ESC and any other byte is no event; none of these returns
\* an error.
C4_EscapeTable ==
  (DkReturned /\ Len(dk_seq) >= 2 /\ dk_seq[1] = ESC /\ AllBytes(dk_seq)) =>
    /\ dk_ret[1].kind = "Ok"
    /\ IF dk_seq[2] = LBRACKET
       THEN LET acc == Drop(dk_seq, 2) IN
            /\ Len(acc) >= 1
            /\ IsFinal(acc[Len(acc)])
            /\ \A i \in 1..(Len(acc) - 1) : ~IsFinal(acc[i])
            /\ DkKey = CsiTable(acc)
       ELSE IF dk_seq[2] = LETTER_O
       THEN /\ Len(dk_seq) = 3
            /\ DkKey = IF dk_seq[3] = 72 THEN Some(Key("Home"))
                       ELSE IF dk_seq[3] = 70 THEN Some(Key("End"))
                       ELSE None
       ELSE /\ Len(dk_seq) = 2
            /\ DkKey = None

\* C4's case: an unlisted CSI sequence, ESC [ 1 ~, has been decoded to no
\* event.
C4_Witness ==
  /\ DkReturned
  /\ dk_seq = <<ESC, LBRACKET, 49, 126>>
  /\ dk_ret[1].kind = "Ok"
  /\ DkKey = None


\* The number of characters of line y of a buffer with these texts.
CharLen(texts, y) == Len(texts[y + 1])
LineExists(texts, y) == y < Len(texts)
ClampToLine(texts, x, y) ==
  IF LineExists(texts, y) THEN Min(x, CharLen(texts, y)) ELSE x

\* C5: a move with dx = 0 leaves cursor.x as it was; a move with dx # 0
\* clamps x to the number of characters of the current line, adds dx and dy
\* saturating at 0, clamps x to the number of characters of the target line,
\* so that cursor.x is at most the target line's length.
C5_MoveCursorBy ==
  (op.name = "move" /\ op.panic = "") =>
    LET d == DeltaOf(op.key)
        x0 == ClampToLine(pre.texts, pre.cursor.x, pre.cursor.y)
        x1 == uclamp(x0 + d.dx)
        y1 == uclamp(pre.cursor.y + d.dy)
    IN IF d.dx = 0 THEN cursor.x = pre.cursor.x
       ELSE /\ cursor.x = ClampToLine(pre.texts, x1, y1)
            /\ LineExists(pre.texts, cursor.y)
                 => cursor.x <= CharLen(pre.texts, cursor.y)

\* query occurs in line y at column c.
OccursAt(texts, q, y, c) ==
  /\ c + Len(q) <= Len(texts[y + 1])
  /\ SubSeq(texts[y + 1], c + 1, c + Len(q)) = q
Positions(texts) ==
  {p \in [x : 0..SetMax({0} \cup {Len(texts[i]) : i \in 1..Len(texts)}),
          y : 0..(Len(texts) - 1)] : TRUE}
\* An occurrence of q in the search direction from the position at.
OccursInDirection(texts, q, at, dir) ==
  \E p \in Positions(texts) :
    /\ OccursAt(texts, q, p.y, p.x)
    /\ IF dir >= 0
       THEN p.y > at.y \/ (p.y = at.y /\ p.x >= at.x)
       ELSE p.y < at.y \/ (p.y = at.y /\ p.x < at.x)
OccursAnywhere(texts, q) ==
  \E p \in Positions(texts) : OccursAt(texts, q, p.y, p.x)

\* C6: a key in search mode, on a buffer with at least one line, after which
\* the query is not empty and has no occurrence in the direction of the
\* search from the cursor, leaves the cursor where it was: the search does
\* not wrap around.
C6_SearchNotFound ==
  (/\ op.name = "search_key"
   /\ op.panic = ""
   /\ Len(pre.texts) >= 1
   /\ query # <<>>
   /\ ~OccursInDirection(pre.texts, query, pre.cursor, direction))
  => cursor = pre.cursor

\* C6's case: the query occurs in the buffer, but only on the other side of
\* the cursor, and the key has left the cursor in place.
C6_Witness ==
  /\ op.name = "search_key"
  /\ op.panic = ""
  /\ query # <<>>
  /\ Len(pre.texts) >= 2
  /\ ~OccursInDirection(pre.texts, query, pre.cursor, direction)
  /\ OccursAnywhere(pre.texts, query)
  /\ cursor = pre.cursor

\* C7: Backspace with the clamped cursor at column 0 of a line y > 0 removes
\* line y, makes line y-1 the concatenation of the two, leaves every other
\* line's text alone and puts the cursor at (number of characters of the old
\* line y-1, y-1).
C7_BackspaceJoin ==
  (/\ op.name = "backspace"
   /\ op.panic = ""
   /\ pre.cursor.y > 0
   /\ LineExists(pre.texts, pre.cursor.y)
   /\ ClampToLine(pre.texts, pre.cursor.x, pre.cursor.y) = 0)
  => LET y == pre.cursor.y IN
     /\ Texts(rows) = Take(pre.texts, y - 1)
                        \o <<pre.texts[y] \o pre.texts[y + 1]>>
                        \o Drop(pre.texts, y + 1)
     /\ Len(rows) = Len(pre.texts) - 1
     /\ cursor = Pos(CharLen(pre.texts, y - 1), y - 1)

SearchOps == {"search_key", "search_no_event", "search_exit", "search_io_error"}

\* C8: search mode is entered with the cursor and the offset saved; the keys
\* that stay in search mode keep the saved values; Escape leaves search mode
\* with cursor and offset equal to the saved values, Enter leaves it with
\* cursor and offset as they were before the key; both empty the status
\* text, and only a key that arrives in search mode is handled by its loop.
C8_SearchExit ==
  /\ op.name = "find" => (saved_cursor = pre.cursor /\ saved_offset = pre.offset)
  /\ op.name \in SearchOps =>
       /\ pre.mode = "search"
       /\ saved_cursor = pre.saved_cursor
       /\ saved_offset = pre.saved_offset
  /\ op.name = "search_exit" =>
       /\ mode = "idle"
       /\ status_msg = "empty"
       /\ IF op.key.k = "Esc"
          THEN cursor = saved_cursor /\ offset = saved_offset
          ELSE cursor = pre.cursor /\ offset = pre.offset

\* C8's case: Escape after a search that had moved the cursor and scrolled.
C8_Witness ==
  /\ op.name = "search_exit"
  /\ op.key.k = "Esc"
  /\ pre.cursor # saved_cursor
  /\ pre.offset # saved_offset
  /\ cursor = saved_cursor
  /\ offset = saved_offset
  /\ mode = "idle"

\* C9: the render form holds no tab, is its own render form, has at least as
\* many characters as the text, and each tab of the text ends at the next
\* multiple of 8 columns (characters) after the column it starts at.
C9_RenderTabStops ==
  IsSome(rd_row) =>
    LET r == rd_row[1].render
        t == rd_row[1].text
    IN /\ \A i \in 1..Len(r) : r[i] # TAB
       /\ Render(r) = r
       /\ Len(r) >= Len(t)
       /\ \A k \in 1..Len(t) :
            t[k] = TAB =>
              LET before == Len(Render(Take(t, k - 1)))
                  after == Len(Render(Take(t, k)))
              IN /\ after = 8 * ((before \div 8) + 1)
                 /\ after - before \in 1..8

\* The lines written: text, "\n", text, "\n", ...
RECURSIVE JoinNL(_)
JoinNL(lines) ==
  IF lines = <<>> THEN <<>> ELSE Head(lines) \o <<LF>> \o JoinNL(Tail(lines))
\* The lines of a byte sequence in which "\n" ends each line.
RECURSIVE SplitNL(_)
SplitNL(bytes) ==
  IF bytes = <<>> THEN <<>>
  ELSE IF \E i \in 1..Len(bytes) : bytes[i] = LF
  THEN LET i == SetMin({j \in 1..Len(bytes) : bytes[j] = LF})
       IN <<SubSeq(bytes, 1, i - 1)>> \o SplitNL(Drop(bytes, i))
  ELSE <<bytes>>

\* C10: a save with no edit since the file was opened writes each line of
\* the opened file, in order, followed by one newline and nothing else: the
\* lines saved are the lines opened.
C10_OpenSaveRoundTrip ==
  (op.name = "save" /\ ~hist.edited) =>
    /\ disk = JoinNL(ReadLines(hist.opened))
    /\ SplitNL(disk) = ReadLines(hist.opened)

\* C10's case: a file of several lines with a tab and a carriage return in
\* it has been saved, keys having moved the cursor in between.
C10_Witness ==
  /\ op.name = "save"
  /\ ~hist.edited
  /\ steps >= 2
  /\ Len(rows) >= 2
  /\ \E i \in 1..Len(hist.opened) : hist.opened[i] = TAB
  /\ disk = JoinNL(ReadLines(hist.opened))

\* A re-highlight scan that stops at the first line after y that needs no
\* recomputation; otherwise the loop of Editor::update_row.
RECURSIVE ScanEarly(_, _, _)
ScanEarly(rws, index, y) ==
  IF index >= Len(rws) THEN [rows |-> rws, panic |-> ""]
  ELSE LET need == row_needs_rehighlight(rws, index) IN
    IF need = "panic"
    THEN [rows |-> rws, panic |-> "row highlighted before above row"]
    ELSE IF need = "yes"
    THEN LET init_state ==
               IF index > 0 /\ rws[index].highlight # None
               THEN rws[index].highlight[1].ending_state
               ELSE "Normal"
             res == Highlight(init_state, rws[index + 1].render)
         IN IF res.panic
            THEN [rows |-> rws,
                  panic |-> "initial_state must be MultiLineComment or Normal"]
            ELSE ScanEarly(
                   [rws EXCEPT ![index + 1].highlight =
                      Some([highlight |-> res.highlight,
                            initial_state |-> res.initial_state,
                            ending_state |-> res.ending_state])],
                   index + 1, y)
    ELSE IF index > y THEN [rows |-> rws, panic |-> ""]
    ELSE ScanEarly(rws, index + 1, y)

\* The texts given to a mutated line.
MutTexts == {<<>>, <<SLASH>>, <<STAR>>, <<SLASH, STAR>>, <<STAR, SLASH>>}

\* The rows as the three mutations of the editor hand them to the scan: a
\* line's text replaced (insert_char, backspace within a line, the left half
\* of insert_newline), a fresh row put in after line y and given a text (the
\* right half of insert_newline), line y removed and the line above given a
\* text (the join of backspace).  Each is [rows, index].
Mutated(rws, y, t) == [rows |-> [rws EXCEPT ![y + 1] = RowUpdate(@, t)], index |-> y]
Mutations(rws) ==
  {Mutated(rws, y, t) : y \in 0..(Len(rws) - 1), t \in MutTexts}
  \cup {Mutated(VecInsert(rws, y + 1, RowNew), y + 1, t) :
          y \in 0..(Len(rws) - 1), t \in MutTexts}
  \cup {Mutated(VecRemove(rws, y), y - 1, t) :
          y \in 1..(Len(rws) - 1), t \in MutTexts}

\* The operations that change rows: every buffer the editor reaches is the
\* buffer of a state one of them has just left.
BufferOps == {"open", "insert_char", "insert_newline", "backspace"}

\* C11: for every buffer the editor reaches and every mutation of a line, the
\* scan of update_row (from the line to the last line) and the scan that
\* stops at the first later line needing no recomputation leave the same
\* cached highlights on every line.  update_row scans only when the editor
\* has a ruleset (editor.rs:313); without one there is no scan to compare.
C11_EarlyExitEquivalent ==
  (op.name \in BufferOps /\ op.panic = "" /\ syntax # None) =>
    \A m \in Mutations(rows) :
      ScanEarly(m.rows, m.index, m.index) = UpdateRowLoop(m.rows, m.index)

\* C11's case: an edit has been made, and a mutation of line 0 makes the scan
\* recompute line 1 and then stop before the last line, which the full scan
\* visits without changing it.
C11_Witness ==
  /\ hist.edited
  /\ Len(rows) >= 3
  /\ \E t \in MutTexts :
       LET m == Mutated(rows, 0, t)
           r == UpdateRowLoop(m.rows, 0)
       IN /\ r.panic = ""
          /\ r.rows[2].highlight # rows[2].highlight
          /\ r.rows[3].highlight = rows[3].highlight
          /\ ScanEarly(m.rows, 0, 0) = r

\* The tags of the enum Highlight (syntax.rs:5-13).
HighlightTags ==
  {"Normal", "Number", "String", "Comment", "MultiLineComment",
   "PrimaryKeyword", "SecondaryKeyword"}

\* C12: for a carry-in of Normal or MultiLineComment and every line,
\* Syntax::highlight returns (it does not panic, and its loops end) a list of
\* exactly one tag for each character; the tag at a position is the tag of
\* the character at that position: a Number tag is on a digit or a '.', a
\* keyword tag on a character of a word, and a line that is one quoted string
\* is String throughout, escaped pairs included.
C12_OneTagPerChar ==
  (IsSome(hl_res) /\ hl_state \in {"Normal", "MultiLineComment"}) =>
    LET r == hl_res[1] IN
    /\ ~r.panic
    /\ Len(r.highlight) = Len(hl_text)
    /\ \A i \in 1..Len(r.highlight) :
         /\ r.highlight[i] \in HighlightTags
         /\ r.highlight[i] = "Number" => (is_numeric(hl_text[i]) \/ hl_text[i] = DOT)
         /\ r.highlight[i] \in {"PrimaryKeyword", "SecondaryKeyword"}
              => (is_alphanumeric(hl_text[i]) \/ hl_text[i] = UNDERSCORE)
    /\ (hl_state = "Normal" /\ hl_text # <<>> /\ hl_text[1] \in {DQUOTE, SQUOTE}
        /\ StringLoop(Tail(hl_text), hl_text[1], 1)[2] = <<>>)
         => AllTag(r.highlight, "String")

\* C12's case: "if .1" has been highlighted from Normal: a keyword of two
\* characters, a blank and two Number tags.
C12_Witness ==
  /\ IsSome(hl_res)
  /\ hl_state = "Normal"
  /\ hl_text = LineKeyword
  /\ hl_res[1].highlight =
       <<"PrimaryKeyword", "PrimaryKeyword", "Normal", "Number", "Number">>

\* C13: while the Editor holds saved attributes, they are the attributes
\* that were in force before the first successful enable_raw_mode (a repeated
\* call does not replace them); once the Editor is dropped, on whichever
\* path, either the terminal has those attributes again, or the restore
\* failed and the warning was printed; the drop never panics.
C13_RawModeRestored ==
  /\ tm_orig # None => tm_orig = tm_first
  /\ tm_pc \notin {"drop_panicked", "aborted"}
  /\ tm_pc = "dropped" =>
       /\ tm_exit \in ExitPaths
       /\ tm_first # None =>
            \/ tm_tty = tm_first[1] /\ tm_orig = None /\ ~tm_warned
            \/ tm_warned /\ tm_orig = tm_first
       /\ tm_first = None => ~tm_warned

\* C13's case: enable_raw_mode was called again while in raw mode, the
\* program ended by unwinding, and the terminal, which was not raw before,
\* has its first attributes back.
C13_Witness ==
  /\ tm_pc = "dropped"
  /\ tm_exit = "panic"
  /\ tm_calls >= 2
  /\ tm_first # None
  /\ ~tm_first[1].raw
  /\ tm_tty = tm_first[1]
  /\ ~tm_warned

\* The operations in which an I/O error happened: save returned an error,
\* the write at the end of save failed, a read or a screen refresh in the
\* search loop failed.
FailedOps == {"save_failed", "save_unflushed", "search_io_error"}

\* C14: after a save that failed or an I/O error in the search loop, the
\* status message is the error message, the editor is back in its main loop
\* (handle_keypress returned true), and the lines of the buffer are what
\* they were.
C14_ErrorsReported ==
  op.name \in FailedOps =>
    /\ status_msg = "error"
    /\ mode = "idle"
    /\ Texts(rows) = pre.texts

\* A key in search mode after which the query is not empty and is not found
\* in the direction of the search.
SearchNotFound ==
  /\ op.name = "search_key"
  /\ query # <<>>
  /\ ~OccursInDirection(pre.texts, query, pre.cursor, direction)

\* C15: in every state, a buffer of no lines included: a search key whose
\* query is not found, and a Backspace with the cursor at (0, 0), end without
\* a panic and leave the lines of the buffer, their number and the cursor as
\* they were.
C15_PolicyNoOps ==
  (SearchNotFound \/ (op.name = "backspace" /\ pre.cursor = Pos(0, 0))) =>
    /\ op.panic = ""
    /\ Texts(rows) = pre.texts
    /\ Len(rows) = Len(pre.texts)
    /\ cursor = pre.cursor

\* C16: with one or more visible rows, in every state the keys lead to, the
\* cursor's line is a line of the buffer (line 0 when there is none) and lies
\* in the window: offset.y <= cursor.y <= offset.y + screen.y - 1, so the
\* terminal row cursor.y - offset.y is in 0..screen.y-1.
C16_CursorInWindow ==
  screen.y >= 1 =>
    /\ cursor.y <= Max(Len(rows) - 1, 0)
    /\ offset.y <= cursor.y
    /\ cursor.y <= offset.y + screen.y - 1
    /\ cursor.y - offset.y \in 0..(screen.y - 1)

\* C16's case: a cursor key has moved the cursor below a window of two rows,
\* which scrolled by the least amount: the cursor is on its last row.
C16_Witness ==
  /\ op.name = "move"
  /\ screen.y = 2
  /\ offset.y > pre.offset.y
  /\ cursor.y = offset.y + screen.y - 1
  /\ cursor.y = Len(rows) - 1

EditOps == {"insert_char", "insert_newline", "backspace"}

\* C17: for every buffer the editor reaches and every position, fixup leaves
\* y alone, gives x = min(x, number of characters of line y) when line y
\* exists and the position itself when it does not; and the column it gives
\* insert_char, insert_newline and backspace is a character position of the
\* line: none of them fails on it.
C17_FixupInChars ==
  /\ \A x \in Columns(rows), y \in 0..Len(rows) :
       fixup(rows, Pos(x, y)) =
         IF y < Len(rows) THEN Pos(Min(x, Len(rows[y + 1].text)), y) ELSE Pos(x, y)
  /\ op.name \in EditOps => op.panic = ""

\* Queries searched for.
SearchQueries ==
  {<<STAR>>, <<SLASH>>, <<233>>, <<STAR, SLASH>>, <<SLASH, STAR>>, <<SLASH, SLASH>>}

\* The occurrences of q at or after the position at, in document order.
OccurrencesFrom(texts, q, at) ==
  {p \in Positions(texts) :
     /\ OccursAt(texts, q, p.y, p.x)
     /\ (p.y > at.y \/ (p.y = at.y /\ p.x >= at.x))}
\* p is before r in document order, or is r.
DocLeq(p, r) == p.y < r.y \/ (p.y = r.y /\ p.x <= r.x)

\* The search as the loop of Editor::find starts it after a key: where it
\* starts from (after the step to the right when direction > 0) and what it
\* returns, [e, found].
SearchStart ==
  IF direction > 0 THEN move_cursor_by(Ed(rows, pre.cursor, pre.offset), 1, 0)
  ELSE Ed(rows, pre.cursor, pre.offset)

\* C18: for every buffer of one or more lines, every cursor and every query
\* of one or more characters, search_forward ends without a panic, returns
\* true exactly when the query occurs at or after the cursor, and then leaves
\* the cursor on the first such occurrence; when it returns false it has gone
\* down to the last line, once.  A key of the search loop with direction >= 0
\* leaves the cursor where this search put it.
C18_SearchForward ==
  /\ (op.name = "find" /\ rows # <<>>) =>
       \A c \in Cursors(rows), q \in SearchQueries :
         LET r == search_forward(Ed(rows, c, offset), q)
             occ == OccurrencesFrom(Texts(rows), q, c)
         IN /\ r.e.panic = ""
            /\ r.found <=> occ # {}
            /\ r.found =>
                 /\ r.e.cursor \in occ
                 /\ \A p \in occ : DocLeq(r.e.cursor, p)
            /\ ~r.found =>
                 r.e.cursor = IF c.y = Len(rows) - 1 THEN c ELSE Pos(0, Len(rows) - 1)
            /\ r.e.rows = rows
  /\ (op.name = "search_key" /\ query # <<>> /\ direction >= 0 /\ rows # <<>>) =>
       LET r == search_forward(SearchStart, query)
           occ == OccurrencesFrom(Texts(rows), query, SearchStart.cursor)
       IN /\ op.panic = ""
          /\ r.found <=> occ # {}
          /\ cursor = IF r.found THEN r.e.cursor ELSE pre.cursor
          /\ r.found => (cursor \in occ /\ \A p \in occ : DocLeq(cursor, p))

\* C18's case: a key of the search loop has taken the cursor from line 0 to
\* the first occurrence of a query of two characters two lines further down,
\* past a line that holds the query's first character.
C18_Witness ==
  /\ op.name = "search_key"
  /\ Len(query) = 2
  /\ direction >= 0
  /\ pre.cursor.y = 0
  /\ cursor.y = 2
  /\ OccursAt(Texts(rows), query, cursor.y, cursor.x)
  /\ OccursAnywhere(<<rows[2].text>>, <<query[1]>>)

\* The occurrences of q that start strictly before the position at.
OccurrencesBefore(texts, q, at) ==
  {p \in Positions(texts) :
     /\ OccursAt(texts, q, p.y, p.x)
     /\ (p.y < at.y \/ (p.y = at.y /\ p.x < at.x))}

\* C19: a key of the search loop with direction < 0 and a query of one or
\* more characters, on a buffer of one or more lines, ends without a panic;
\* when the query occurs at a position strictly before the cursor (the cursor
\* may be at or beyond the end of its line, the occurrence may end with the
\* last character of its line) the cursor is left on the last such
\* occurrence, and otherwise where it was.
C19_SearchBackward ==
  (op.name = "search_key" /\ query # <<>> /\ direction < 0 /\ rows # <<>>) =>
    LET occ == OccurrencesBefore(pre.texts, query, pre.cursor)
    IN /\ op.panic = ""
       /\ occ = {} => cursor = pre.cursor
       /\ occ # {} => (cursor \in occ /\ \A p \in occ : DocLeq(p, cursor))

\* C20: a key that stays in the search loop while the query is empty before
\* and after it (Backspace, an arrow, an ignored key) ends without a panic
\* and leaves the cursor where it was.
C20_EmptyQueryKeepsCursor ==
  (op.name = "search_key" /\ pre.query = <<>> /\ query = <<>>) =>
    /\ op.panic = ""
    /\ cursor = pre.cursor

\* read_escape is past its ESC byte and has not returned.
DkInEscape == dk_pc \in {"escape", "csi", "ss3"}

\* The positions of dk_seq that hold a poll without data.
DkTimeouts == {i \in 1..Len(dk_seq) : dk_seq[i] = NoData}

\* What C21 says of one state: a call past its ESC byte has seen no poll
\* without data; a call that read ESC and has returned saw at most one, it
\* was its last poll, and the call returned Esc with nothing kept of the bytes
\* read before it.
DkNoWait ==
  /\ DkInEscape => (dk_seq[1] = ESC /\ DkTimeouts = {})
  /\ (dk_pc = "idle" /\ IsSome(dk_ret) /\ dk_seq # <<>> /\ dk_seq[1] = ESC) =>
       /\ DkTimeouts \subseteq {Len(dk_seq)}
       /\ dk_seq[Len(dk_seq)] = NoData => dk_ret[1] = RetOk(EscEsc)
       /\ Len(dk_seq) - 1 <= MaxCsi + 1

\* C21: after the ESC byte, a poll without data (for the second byte, inside
\* the loop of read_csi, or for the SS3 byte) ends the call at once with Esc,
\* the bytes accumulated so far dropped; and every call that has read ESC
\* returns, the terminal sending finitely many bytes after it.
C21_NoHangAfterEsc ==
  /\ []DkNoWait
  /\ DkInEscape ~> (dk_pc = "idle")

\* C21's case: inside the loop of read_csi, after ESC [ 1, a poll gave no
\* data and the call has returned Esc.
C21_Witness ==
  /\ dk_pc = "idle"
  /\ dk_seq = <<ESC, LBRACKET, 49, NoData>>
  /\ dk_ret = Some(RetOk(EscEsc))

\* The lexical state at the end of line t, read character by character from
\* index i in state m ("Normal", "Block" inside a block comment, "String"
\* inside a string opened by q, "Line" after "//"); from is the index at
\* which the construct that is open began (0 for one carried in).  A block
\* comment closes at the first "*/" after its opener; in a string a
\* backslash takes the character after it.
RECURSIVE LexEnd(_, _, _, _, _)
LexEnd(t, i, m, q, from) ==
  IF i > Len(t) \/ m = "Line" THEN [state |-> m, from |-> from]
  ELSE LET two == SubSeq(t, i, Min(i + 1, Len(t))) IN
    CASE m = "Block" ->
           IF two = <<STAR, SLASH>> THEN LexEnd(t, i + 2, "Normal", 0, 0)
           ELSE LexEnd(t, i + 1, m, q, from)
      [] m = "String" ->
           IF t[i] = BACKSLASH THEN LexEnd(t, i + 2, m, q, from)
           ELSE IF t[i] = q THEN LexEnd(t, i + 1, "Normal", 0, 0)
           ELSE LexEnd(t, i + 1, m, q, from)
      [] OTHER ->
           IF two = <<SLASH, SLASH>> THEN LexEnd(t, i + 2, "Line", 0, i)
           ELSE IF two = <<SLASH, STAR>> THEN LexEnd(t, i + 2, "Block", 0, i)
           ELSE IF t[i] \in {SQUOTE, DQUOTE} THEN LexEnd(t, i + 1, "String", t[i], i)
           ELSE LexEnd(t, i + 1, "Normal", 0, 0)

\* The state at the end of the line highlighted last.
HlLineEnd ==
  LexEnd(hl_text, 1, IF hl_state = "MultiLineComment" THEN "Block" ELSE "Normal", 0, 0)

\* C22: for a carry-in of Normal or MultiLineComment and every line, the
\* ending_state is MultiLineComment exactly when the end of the line is
\* inside a block comment not yet closed (so a "/*" in a string or after "//"
\* opens none); a line that ends in a "//" comment is Comment from the "//"
\* on, a line that ends in an unterminated string is String from its quote
\* on, and both end Normal.
C22_EndingState ==
  (IsSome(hl_res) /\ hl_state \in {"Normal", "MultiLineComment"}) =>
    LET r == hl_res[1]
        end == HlLineEnd
    IN /\ (r.ending_state = "MultiLineComment") <=> (end.state = "Block")
       /\ r.ending_state \in {"Normal", "MultiLineComment"}
       /\ end.state = "Line" =>
            \A i \in end.from..Len(hl_text) : r.highlight[i] = "Comment"
       /\ end.state = "String" =>
            \A i \in end.from..Len(hl_text) : r.highlight[i] = "String"

\* The index of the first quote character of t when nothing before it opens
\* a comment (no '/' before it), 0 when there is none: from a carry-in of
\* Normal a string token opens there.
StringStart(t) ==
  LET qs == {i \in 1..Len(t) : t[i] \in {SQUOTE, DQUOTE}
                                /\ \A j \in 1..(i - 1) : t[j] # SLASH}
  IN IF qs = {} THEN 0 ELSE SetMin(qs)

\* The character at j, inside a string opened at start, is taken by a
\* backslash: the run of backslashes that ends just before j is of odd
\* length.
Escaped(t, start, j) ==
  LET run == SetMax({n \in 0..(j - start - 1) :
                       \A k \in (j - n)..(j - 1) : t[k] = BACKSLASH})
  IN run % 2 = 1

\* The index at which the string opened at start ends: its first quote
\* character of the same kind that no backslash takes, or the end of the line.
StringEnd(t, start) ==
  LET qs == {j \in (start + 1)..Len(t) : t[j] = t[start] /\ ~Escaped(t, start, j)}
  IN IF qs = {} THEN Len(t) ELSE SetMin(qs)

\* C23: from a carry-in of Normal, the string token opened by the first quote
\* character q of a line is String from q to the first later q that no
\* backslash takes (a backslash takes the character after it, the other
\* quote character ends nothing), or to the end of the line when there is no
\* such q; the token ends there: what follows is String only if it is itself
\* a quote character.
C23_StringToken ==
  (IsSome(hl_res) /\ hl_state = "Normal" /\ StringStart(hl_text) > 0) =>
    LET tags == hl_res[1].highlight
        from == StringStart(hl_text)
        to == StringEnd(hl_text, from)
    IN /\ Len(tags) = Len(hl_text)
       /\ \A i \in from..to : tags[i] = "String"
       /\ to < Len(hl_text) =>
            (tags[to + 1] = "String" <=> hl_text[to + 1] \in {SQUOTE, DQUOTE})

\* C23's case: in the line "'\" the other quote character and an escaped
\* quote character are inside the string, which runs to the end of the line.
C23_Witness ==
  /\ IsSome(hl_res)
  /\ hl_state = "Normal"
  /\ hl_text = <<DQUOTE, SQUOTE, BACKSLASH, DQUOTE>>
  /\ StringEnd(hl_text, 1) = 4
  /\ Escaped(hl_text, 1, 4)
  /\ AllTag(hl_res[1].highlight, "String")

\* The buffer highlighted from scratch: the highlight of each line of rws
\* from index i on, over its render form, line 0 from Normal and every other
\* line from the ending_state just computed for the line above it (carry).
RECURSIVE FromScratch(_, _, _)
FromScratch(rws, i, carry) ==
  IF i > Len(rws) THEN <<>>
  ELSE LET res == Highlight(carry, Render(rws[i].text))
       IN <<[highlight |-> res.highlight,
             initial_state |-> res.initial_state,
             ending_state |-> res.ending_state]>>
          \o FromScratch(rws, i + 1, res.ending_state)

\* C24: after open, insert_char, insert_newline or backspace has returned,
\* every line has a cached highlight, and the cached highlights are those of
\* the buffer highlighted from scratch over the lines' render forms.
C24_HighlightFromScratch ==
  (op.name \in BufferOps /\ op.panic = "") =>
    LET fresh == FromScratch(rows, 1, "Normal") IN
    \A i \in 1..Len(rows) :
      /\ rows[i].render = Render(rows[i].text)
      /\ IsSome(rows[i].highlight)
      /\ rows[i].highlight[1] = fresh[i]

\* The panics of the three internal guards (editor.rs:303, syntax.rs:71,
\* editor.rs:570).
GuardPanics ==
  {"row highlighted before above row",
   "initial_state must be MultiLineComment or Normal",
   "insert_char called with newline"}

\* C25: whatever keys are pressed after a file was opened, no operation ends
\* in the panic of an internal guard, and what the guards test holds: where a
\* scan can start (the editor has a ruleset, editor.rs:313) no line with a
\* cached highlight lies below a line without one, every stored ending_state
\* is Normal or MultiLineComment, and the bytes 10 and 13 go to
\* insert_newline, never to insert_char.
C25_GuardsUnreachable ==
  /\ op.panic \notin GuardPanics
  /\ syntax # None =>
       \A i \in 2..Len(rows) :
         IsSome(rows[i].highlight) => IsSome(rows[i - 1].highlight)
  /\ \A i \in 1..Len(rows) :
       IsSome(rows[i].highlight) =>
         /\ rows[i].highlight[1].ending_state \in {"Normal", "MultiLineComment"}
         /\ rows[i].highlight[1].initial_state \in {"Normal", "MultiLineComment"}
  /\ op.name = "insert_char" => op.key.ch \notin {LF, CR}
  /\ (pre.mode = "idle" /\ op.key \in {KeyChar(LF), KeyChar(CR)}) =>
       op.name = "insert_newline"

\* C25's case: the byte 10 was pressed inside a block comment and went to
\* insert_newline; the new line got its highlight from the ending_state
\* stored for the line above it.
C25_Witness ==
  /\ op = OpOf("insert_newline", KeyChar(LF), "")
  /\ cursor.y >= 1
  /\ IsSome(rows[cursor.y + 1].highlight)
  /\ rows[cursor.y].highlight[1].ending_state = "MultiLineComment"
  /\ rows[cursor.y + 1].highlight[1].initial_state = "MultiLineComment"

\* The lines insert_char works on: those before the key, or one empty line
\* when there was none.
LinesOrOne(texts) == IF texts = <<>> THEN <<<<>>>> ELSE texts

\* C26: insert_char(ch), the cursor's x beyond the end of the line or not,
\* returns; with c = min(cursor.x, number of characters of line cursor.y) it
\* has put ch at column c of that line and left the number of lines and the
\* text of every other line as they were (an empty buffer first gets one
\* empty line); afterwards fixup(cursor) is (c + 1, cursor.y).
C26_InsertChar ==
  op.name = "insert_char" =>
    LET old == LinesOrOne(pre.texts)
        y == pre.cursor.y
        c == Min(pre.cursor.x, Len(old[y + 1]))
    IN /\ op.panic = ""
       /\ Texts(rows) =
            [old EXCEPT ![y + 1] = Take(@, c) \o <<op.key.ch>> \o Drop(@, c)]
       /\ fixup(rows, cursor) = Pos(c + 1, y)

\* The concatenation of the texts of all lines.
RECURSIVE ConcatAll(_)
ConcatAll(texts) == IF texts = <<>> THEN <<>> ELSE Head(texts) \o ConcatAll(Tail(texts))

\* C27: in every state of the main loop with one or more lines, whatever the
\* cursor: insert_newline and then backspace both return, and give back every
\* line's text, with the cursor at (min(cursor.x, number of characters of
\* line cursor.y), cursor.y); insert_char and then backspace both return and
\* give back every line's text; insert_newline alone leaves the
\* concatenation of the lines as it was, adds exactly one line and puts the
\* cursor at column 0 of the line after cursor.y.
C27_NewlineBackspaceInverse ==
  (mode = "idle" /\ rows # <<>>) =>
    LET n == insert_newline(Cur)
        nb == backspace(n)
        y == cursor.y
    IN /\ n.panic = ""
       /\ nb.panic = ""
       /\ Texts(nb.rows) = Texts(rows)
       /\ nb.cursor = Pos(Min(cursor.x, Len(rows[y + 1].text)), y)
       /\ ConcatAll(Texts(n.rows)) = ConcatAll(Texts(rows))
       /\ Len(n.rows) = Len(rows) + 1
       /\ n.cursor = Pos(0, y + 1)
       /\ \A ch \in TypedChars :
            LET i == insert_char(Cur, ch)
                ib == backspace(i)
            IN /\ i.panic = ""
               /\ ib.panic = ""
               /\ Texts(ib.rows) = Texts(rows)

\* The scan a key of the search loop has run (editor.rs:694-701), from the
\* cursor and the offset before the key: [e, found].
LastScan ==
  LET e == Ed(rows, pre.cursor, pre.offset)
  IN IF direction >= 0
     THEN search_forward(IF direction > 0 THEN move_cursor_by(e, 1, 0) ELSE e, query)
     ELSE search_backward(e, query)

\* C28: a key of the search loop whose search found nothing (and did not
\* panic) leaves the offset, the cursor and the texts as they were before the
\* key, wherever the scan took the cursor.
C28_FailedSearchKeepsOffset ==
  (/\ op.name = "search_key"
   /\ op.panic = ""
   /\ rows # <<>>
   /\ ~LastScan.found)
  => /\ offset = pre.offset
     /\ cursor = pre.cursor
     /\ Texts(rows) = pre.texts

====
